---- MODULE Spec2Model ----
(***************************************************************************)
(* A model of the transaction-graph analysis engine of src/app.py: the     *)
(* union-find address clusterer, the batch scan (process_txids), the       *)
(* cluster driver (cluster_from_address) and the peel-chain tracer          *)
(* (trace_peel_chain, the second definition, which replaces the first).    *)
(*                                                                         *)
(* Python dicts are records; a key that may be absent is a field that may  *)
(* be absent from the record's domain.  Python's None, where it stands     *)
(* for an absent string, is the string None below.                         *)
(***************************************************************************)
EXTENDS Integers, Sequences, FiniteSets, TLC

VARIABLES
    \* ---- union-find exercised on its own
    uf,         \* the UnionFind object: [parent, keys]
    unioned,    \* history: the pairs union was called with
    seen,       \* history: every address ever passed to find or union
    last,       \* the last call and what it returned
    nops,       \* number of calls made
    \* ---- peel(): the request and trace_peel_chain's locals
    req,        \* the parsed form: [txid, vout, max_hops, force_vout]
    pc,         \* "idle", "tracing", "done", "rejected", "raised"
    chain, cur_tx, cur_vout, hop,
    calls,      \* number of provider calls made for the request
    followed,   \* history: what the provider said about each followed output
    lookedup,    \* history: the transaction lookups of each iteration and their answers
    \* ---- analyze() / process_txids
    txid_list, bpos, buf, bip_edges, tx_flags,
    bpc,        \* "idle", "rejected", "running", "done", "failed"
    lookups,    \* history: the provider's answer to each get_tx_json call
    bout,       \* what analyze() renders: [clusters, projected, flags]
    \* ---- clusters() / cluster_from_address
    cin,        \* the request and the provider's page: [seed, page, max_txs, confirmed_only]
    cpc,        \* "idle", "rejected", "done"
    cres,       \* the returned dict: [members, candidates, txs_scanned] and the uf built
    \* ---- the address-history cache and the runs of the process
    ADDRESS_TXS_CACHE,  \* the module-level dict: address -> list of tx summaries
    run,        \* history: the number of the analysis run in progress
    written_in, \* history: address -> the run that stored its cache entry
    single,     \* the last is_address_single_use_in_tx call and what it did
    \* ---- the pure analysers applied to one input
    fn,         \* "none" or the name of the function applied
    arg,        \* its argument
    ret,        \* what it returned
    \* ---- the process
    set_order   \* the order in which this process's sets iterate the script-type strings

ufVars    == <<uf, unioned, seen, last, nops>>
peelVars  == <<req, pc, chain, cur_tx, cur_vout, hop, calls, followed, lookedup>>
batchVars == <<txid_list, bpos, buf, bip_edges, tx_flags, bpc, lookups, bout>>
clusVars  == <<cin, cpc, cres>>
cacheVars == <<ADDRESS_TXS_CACHE, run, written_in, single>>
fnVars    == <<fn, arg, ret>>
procVars  == <<set_order>>
restVars  == <<cacheVars, fnVars, procVars>>
vars      == <<ufVars, peelVars, batchVars, clusVars, restVars>>

None == "None"

\* dict.get(k, d)
Get(r, k, d) == IF k \in DOMAIN r THEN r[k] ELSE d

Range(s) == {s[i] : i \in 1..Len(s)}

(***************************************************************************)
(* UnionFind (src/app.py 62-74).  parent is the dict; keys is the dict's   *)
(* insertion order, which groups() iterates.                               *)
(***************************************************************************)
Addr == {"a1", "a2", "a3"}

UnionFind == [parent |-> [k \in {} |-> k], keys |-> << >>]

\* A wrong find: returns the stored parent without following it to the root.
find_oneStep(u, a) ==
    IF a \notin DOMAIN u.parent
    THEN [uf |-> [parent |-> u.parent @@ (a :> a), keys |-> Append(u.keys, a)], ret |-> a]
    ELSE [uf |-> u, ret |-> u.parent[a]]

RECURSIVE find(_, _)
find(u, a) ==
    IF a \notin DOMAIN u.parent
    THEN [uf |-> [parent |-> u.parent @@ (a :> a), keys |-> Append(u.keys, a)], ret |-> a]
    ELSE IF u.parent[a] = a
    THEN [uf |-> u, ret |-> a]
    ELSE LET r == find(u, u.parent[a])
         IN  [uf |-> [r.uf EXCEPT !.parent[a] = r.ret], ret |-> r.ret]

\* A wrong union: hangs b itself, not b's root, under a's root.
union_relinkArg(u, a, b) ==
    LET ra == find(u, a)
        rb == find(ra.uf, b)
    IN  IF ra.ret # rb.ret THEN [rb.uf EXCEPT !.parent[b] = ra.ret] ELSE rb.uf

union(u, a, b) ==
    LET ra == find(u, a)
        rb == find(ra.uf, b)
    IN  IF ra.ret # rb.ret THEN [rb.uf EXCEPT !.parent[rb.ret] = ra.ret] ELSE rb.uf

\* out[key].append(k) on a defaultdict(list)
AppendTo(out, key, k) ==
    IF key \in DOMAIN out THEN [out EXCEPT ![key] = Append(@, k)]
    ELSE out @@ (key :> <<k>>)

\* A wrong groups: files each key under its stored parent, not under find(k).
RECURSIVE groups_byParentLoop(_, _, _)
groups_byParentLoop(u, i, out) ==
    IF i > Len(u.keys) THEN [uf |-> u, ret |-> out]
    ELSE groups_byParentLoop(u, i + 1, AppendTo(out, u.parent[u.keys[i]], u.keys[i]))

groups_byParent(u) == groups_byParentLoop(u, 1, [k \in {} |-> << >>])

\* for k in list(self.parent.keys()): out[self.find(k)].append(k)
RECURSIVE groupsLoop(_, _, _)
groupsLoop(u, i, out) ==
    IF i > Len(u.keys) THEN [uf |-> u, ret |-> out]
    ELSE LET r == find(u, u.keys[i])
         IN  groupsLoop(r.uf, i + 1, AppendTo(out, r.ret, u.keys[i]))

groups(u) == groupsLoop(u, 1, [k \in {} |-> << >>])

\* ---- the union-find state machine
MaxOps == 4

InitIdle ==
    /\ uf = UnionFind /\ unioned = {} /\ seen = {} /\ last = [op |-> "new"] /\ nops = 0
    /\ req = [txid |-> "", vout |-> 0, max_hops |-> 0, force_vout |-> FALSE]
    /\ pc = "idle" /\ chain = << >> /\ cur_tx = "" /\ cur_vout = 0 /\ hop = 0
    /\ calls = 0 /\ followed = << >> /\ lookedup = << >>
    /\ txid_list = << >> /\ bpos = 1 /\ buf = UnionFind /\ bip_edges = << >>
    /\ tx_flags = << >> /\ bpc = "idle" /\ lookups = << >> /\ bout = [none |-> TRUE]
    /\ cin = [none |-> TRUE] /\ cpc = "idle" /\ cres = [none |-> TRUE]
    /\ ADDRESS_TXS_CACHE = [a \in {} |-> << >>] /\ run = 1
    /\ written_in = [a \in {} |-> 0] /\ single = [op |-> "none"]
    /\ fn = "none" /\ arg = [none |-> TRUE] /\ ret = [none |-> TRUE]
    /\ set_order = <<"p2sh", "p2wpkh">>

Find(a) ==
    /\ nops < MaxOps
    /\ LET r == find(uf, a)
       IN  /\ uf' = r.uf
           /\ last' = [op |-> "find", arg |-> a, ret |-> r.ret]
    /\ seen' = seen \cup {a}
    /\ nops' = nops + 1
    /\ UNCHANGED <<unioned, peelVars, batchVars, clusVars, restVars>>

Union(a, b) ==
    /\ nops < MaxOps
    /\ uf' = union(uf, a, b)
    /\ unioned' = unioned \cup {<<a, b>>}
    /\ seen' = seen \cup {a, b}
    /\ last' = [op |-> "union"]
    /\ nops' = nops + 1
    /\ UNCHANGED <<peelVars, batchVars, clusVars, restVars>>

Groups ==
    /\ nops < MaxOps
    /\ LET r == groups(uf)
       IN  /\ uf' = r.uf
           /\ last' = [op |-> "groups", ret |-> r.ret]
    /\ nops' = nops + 1
    /\ UNCHANGED <<unioned, seen, peelVars, batchVars, clusVars, restVars>>

NextUF ==
    \/ \E a \in Addr : Find(a)
    \/ \E a, b \in Addr : Union(a, b)
    \/ Groups

SpecUF == InitIdle /\ [][NextUF]_vars

\* C3: once union(a,b) has been called, find(a) = find(b) in every later
\* state, whatever find, union and groups calls follow.
UnionMergesForever ==
    \A p \in unioned : find(uf, p[1]).ret = find(uf, p[2]).ret

\* Two addresses were unioned through a third and calls followed the union.
UnionThenMoreCalls ==
    /\ \E a, b \in Addr : a # b /\ <<a, b>> \in unioned /\ uf.parent[a] # a /\ uf.parent[b] # b
    /\ last.op \in {"find", "groups"}

\* C4: groups() partitions the key set: every address ever passed to find
\* or union is in exactly one group, once, and each group is keyed by the
\* representative find returns for its members.
GroupsPartition ==
    last.op = "groups" =>
        LET g == last.ret IN
        /\ \A a \in seen :
              Cardinality({r \in DOMAIN g : a \in Range(g[r])}) = 1
        /\ \A r \in DOMAIN g :
              /\ \A i, j \in 1..Len(g[r]) : g[r][i] = g[r][j] => i = j
              /\ \A i \in 1..Len(g[r]) :
                    /\ g[r][i] \in seen
                    /\ find(uf, g[r][i]).ret = r

\* groups() returned two groups, one of them with two or more members.
GroupsSeveral ==
    /\ last.op = "groups"
    /\ Cardinality(DOMAIN last.ret) = 2
    /\ \E r \in DOMAIN last.ret : Len(last.ret[r]) >= 2

\* C5: find is idempotent on every reachable union-find, for seen and
\* unseen addresses, and an unseen address becomes a singleton that is its
\* own representative.
FindIdempotent ==
    \A a \in Addr :
        LET r1 == find(uf, a)
            r2 == find(r1.uf, r1.ret)
        IN  /\ r2.ret = r1.ret
            /\ a \notin DOMAIN uf.parent =>
                  /\ r1.ret = a
                  /\ r1.uf.parent[a] = a
                  /\ \A k \in DOMAIN uf.parent : r1.uf.parent[k] = uf.parent[k] /\ uf.parent[k] # a

\* A chain two links deep exists (find has to follow it) and find was called.
FindOnDeepChain ==
    /\ \E a \in DOMAIN uf.parent :
          uf.parent[a] # a /\ uf.parent[uf.parent[a]] # uf.parent[a]
    /\ last.op = "find"

(***************************************************************************)
(* The data provider as the tracer sees it.  A call either fails (the      *)
(* request raises) or returns JSON; what is returned is drawn from the     *)
(* sets below at every call.                                               *)
(***************************************************************************)
Tx == {"T1", "T2"}

Failure == [ok |-> FALSE]

\* the "value" an outspend entry may carry (Esplora's entries carry none)
OsValues == {500}

Unspent == [spent |-> FALSE]

OutspendEntries ==
    {Unspent, [spent |-> TRUE]}
    \cup {[spent |-> FALSE, value |-> v] : v \in OsValues}
    \cup {[spent |-> TRUE, txid |-> t, vin |-> 0] : t \in Tx}
    \cup {[spent |-> TRUE, txid |-> t, vin |-> 0, value |-> v] : t \in Tx, v \in OsValues}

\* GET /tx/:txid/outspends: one entry per output, ordered by output index
OutspendLists ==
    {<< >>}
    \cup {<<e>> : e \in OutspendEntries}
    \cup {<<e, Unspent>> : e \in OutspendEntries}
    \cup {<<Unspent, e>> : e \in OutspendEntries}

OutspendResponses == {Failure} \cup {[ok |-> TRUE, json |-> l] : l \in OutspendLists}

\* GET /tx/:txid, as far as the tracer reads it: the vout list
TxVouts ==
    { <<[value |-> 300, scriptpubkey_address |-> "a1"], [value |-> 700]>> }

TxResponses == {Failure} \cup {[ok |-> TRUE, json |-> [vout |-> l]] : l \in TxVouts}

\* Python's list[i]: a negative i counts from the end; outside -n..n-1 it raises IndexError
PyIndexOK(i, n) == -n <= i /\ i < n
PyAt(s, i) == IF i >= 0 THEN s[i + 1] ELSE s[Len(s) + i + 1]

\* Python truthiness of an optional string
Truthy(x) == x # None /\ x # ""

\* max(o.get("value", 0) for o in outs, default=0)
RECURSIVE MaxValue(_)
MaxValue(outs) ==
    IF outs = << >> THEN 0
    ELSE LET m == MaxValue(Tail(outs))
             v == Get(Head(outs), "value", 0)
         IN  IF v >= m THEN v ELSE m

\* max(outs, key=lambda o: o.get("value", 0)): the first entry with the largest value
FirstLargest(outs) ==
    LET i == CHOOSE i \in 1..Len(outs) :
                 /\ Get(outs[i], "value", 0) = MaxValue(outs)
                 /\ \A j \in 1..(i - 1) : Get(outs[j], "value", 0) # MaxValue(outs)
    IN  outs[i]

\* "not value": None or 0
Falsy(val) == val.isNone \/ val.v = 0

(***************************************************************************)
(* trace_peel_chain's value fallback chain (src/app.py 690-730) for the    *)
(* outspend entry out of output cv.  src is the provider's answer to       *)
(* get_tx_json(cur_tx), sp its answer to get_tx_json(spent_txid); each is  *)
(* read only where the code makes the call.  A value is [isNone, v].       *)
(***************************************************************************)
ValueFromOutspend(out) ==
    [isNone |-> "value" \notin DOMAIN out, v |-> Get(out, "value", 0),
     source |-> None, calls |-> 0]

\* A wrong fallback: forced-lookup mode ignored, the source transaction read
\* only when the spend-status value is missing.
ValueFromTxVout_unforced(val, cv, force, src) ==
    IF Falsy(val)
    THEN IF ~src.ok
         THEN [val EXCEPT !.source = "tx_vout_error", !.calls = @ + 1]
         ELSE LET vouts == Get(src.json, "vout", << >>) IN
              IF cv < Len(vouts) /\ PyIndexOK(cv, Len(vouts))
              THEN [isNone |-> FALSE, v |-> Get(PyAt(vouts, cv), "value", 0),
                    source |-> "tx_vout", calls |-> val.calls + 1]
              ELSE [val EXCEPT !.source = "tx_vout_missing_index", !.calls = @ + 1]
    ELSE val

ValueFromTxVout(val, cv, force, src) ==
    IF force \/ Falsy(val)
    THEN IF ~src.ok
         THEN [val EXCEPT !.source = "tx_vout_error", !.calls = @ + 1]
         ELSE LET vouts == Get(src.json, "vout", << >>) IN
              IF cv < Len(vouts)
              THEN IF PyIndexOK(cv, Len(vouts))
                   THEN [isNone |-> FALSE, v |-> Get(PyAt(vouts, cv), "value", 0),
                         source |-> "tx_vout", calls |-> val.calls + 1]
                   ELSE [val EXCEPT !.source = "tx_vout_error", !.calls = @ + 1]
              ELSE [val EXCEPT !.source = "tx_vout_missing_index", !.calls = @ + 1]
    ELSE val

ValueFromOutspendAgain(val, out) ==
    IF Falsy(val) /\ val.source = None /\ "value" \in DOMAIN out /\ Get(out, "value", 0) > 0
    THEN [val EXCEPT !.isNone = FALSE, !.v = out.value, !.source = "outspends"]
    ELSE val

\* A wrong proxy: the first output of the spending transaction, not the largest.
ValueFromProxy_firstOutput(val, out, sp) ==
    IF Falsy(val) /\ Get(out, "spent", FALSE) /\ Truthy(Get(out, "txid", None))
    THEN IF ~sp.ok
         THEN [val EXCEPT !.source = "proxy_error", !.calls = @ + 1]
         ELSE LET outs_sp == Get(sp.json, "vout", << >>) IN
              IF outs_sp # << >> /\ MaxValue(outs_sp) > 0
              THEN [isNone |-> FALSE, v |-> Get(outs_sp[1], "value", 0),
                    source |-> "proxy_spent_largest", calls |-> val.calls + 1]
              ELSE [val EXCEPT !.calls = @ + 1]
    ELSE val

ValueFromProxy(val, out, sp) ==
    IF Falsy(val) /\ Get(out, "spent", FALSE) /\ Truthy(Get(out, "txid", None))
    THEN IF ~sp.ok
         THEN [val EXCEPT !.source = "proxy_error", !.calls = @ + 1]
         ELSE LET outs_sp == Get(sp.json, "vout", << >>) IN
              IF outs_sp # << >> /\ MaxValue(outs_sp) > 0
              THEN [isNone |-> FALSE, v |-> MaxValue(outs_sp),
                    source |-> "proxy_spent_largest", calls |-> val.calls + 1]
              ELSE [val EXCEPT !.calls = @ + 1]
    ELSE val

ValueFinal(val) ==
    IF val.isNone
    THEN [val EXCEPT !.isNone = FALSE, !.v = 0,
                     !.source = IF val.source = None THEN "unknown" ELSE val.source]
    ELSE val

ResolveValue(out, cv, force, src, sp) ==
    ValueFinal(ValueFromProxy(
        ValueFromOutspendAgain(ValueFromTxVout(ValueFromOutspend(out), cv, force, src), out),
        out, sp))

\* the display address (src/app.py 735-744): [addr, calls]
SpentAddr(out, sp2) ==
    IF Get(out, "spent", FALSE) /\ Truthy(Get(out, "txid", None))
    THEN IF ~sp2.ok THEN [addr |-> None, calls |-> 1]
         ELSE LET outs == Get(sp2.json, "vout", << >>) IN
              IF outs = << >> THEN [addr |-> None, calls |-> 1]
              ELSE LET a == Get(FirstLargest(outs), "scriptpubkey_address", None)
                   IN  [addr |-> IF Truthy(a) THEN a ELSE "NON_STD", calls |-> 1]
    ELSE [addr |-> None, calls |-> 0]

\* the hop record appended for a resolved output (src/app.py 688, 746-754)
HopRecord(tx, cv, out, val, sa) ==
    [from_tx |-> tx, from_vout |-> cv, raw_outspend |-> out,
     value_sats |-> val.v, value_source |-> val.source,
     spent |-> Get(out, "spent", FALSE),
     spent_in_tx |-> Get(out, "txid", None),
     spent_in_vin_index |-> Get(out, "vin", None),
     spent_addr |-> sa.addr]

OutspendsErrorHop(tx, cv) ==
    [from_tx |-> tx, from_vout |-> cv, value_sats |-> None,
     value_source |-> "outspends_error", error |-> "outspends_failed"]

OutOfRangeHop(tx, cv) ==
    [from_tx |-> tx, from_vout |-> cv, value_sats |-> None,
     value_source |-> "vout_index_out_of_range", error |-> "vout_index_out_of_range"]

\* if cur_vout >= len(outspends)
IndexOutOfRange(cv, n) == cv >= n

\* A wrong loop exit: the test inverted, stopping on a spent output.
ChainEnds_inverted(out) == Get(out, "spent", FALSE) /\ Truthy(Get(out, "txid", None))

\* if not spent or not spent_txid: break
ChainEnds(out) == ~Get(out, "spent", FALSE) \/ ~Truthy(Get(out, "txid", None))

\* A wrong loop bound: one iteration too many.
LoopContinues_oneMore(h, max_hops) == h + 1 <= max_hops

\* for hop in range(max_hops): whether another iteration follows iteration h
LoopContinues(h, max_hops) == h + 1 < max_hops

(***************************************************************************)
(* peel() (src/app.py 913-938) and the loop of trace_peel_chain            *)
(* (src/app.py 671-763), one iteration per step.                           *)
(***************************************************************************)
MaxHops == 2
MaxVout == 1
MaxNegVout == 2

\* the form fields after strip() and int()
PeelTxids == {"", "T1"}
PeelVouts == (0 - MaxNegVout)..MaxVout
PeelMaxHops == (0 - 1)..MaxHops

\* POST /peel up to the first iteration of the loop
PeelStart(txid, vout, max_hops, force_vout) ==
    /\ pc = "idle"
    /\ req' = [txid |-> txid, vout |-> vout, max_hops |-> max_hops, force_vout |-> force_vout]
    /\ IF txid = ""
       THEN /\ pc' = "rejected"
            /\ UNCHANGED <<cur_tx, cur_vout>>
       ELSE /\ pc' = IF LoopContinues(0 - 1, max_hops) THEN "tracing" ELSE "done"
            /\ cur_tx' = txid
            /\ cur_vout' = vout
    /\ UNCHANGED <<chain, hop, calls, followed, lookedup, ufVars, batchVars, clusVars, restVars>>

\* what the provider said about output (tx, idx), the output the tracer is at
Followed(tx, idx, osr) ==
    [tx |-> tx, idx |-> idx,
     status |-> IF ~osr.ok THEN "failed"
                ELSE IF idx < 0 \/ idx >= Len(osr.json) THEN "out_of_range"
                ELSE "ok",
     out |-> IF osr.ok /\ idx >= 0 /\ idx < Len(osr.json) THEN osr.json[idx + 1] ELSE Unspent]

\* which provider calls an iteration makes after get_outspends answered osr
Resolvable(osr, cv) ==
    osr.ok /\ ~IndexOutOfRange(cv, Len(osr.json)) /\ PyIndexOK(cv, Len(osr.json))

NeedsSource(osr, cv, force) ==
    Resolvable(osr, cv) /\ (force \/ Falsy(ValueFromOutspend(PyAt(osr.json, cv))))

NeedsProxy(osr, cv, force, src) ==
    /\ Resolvable(osr, cv)
    /\ LET out == PyAt(osr.json, cv)
       IN  /\ Falsy(ValueFromOutspendAgain(ValueFromTxVout(ValueFromOutspend(out), cv, force, src), out))
           /\ Get(out, "spent", FALSE) /\ Truthy(Get(out, "txid", None))

NeedsSpentTx(osr, cv) ==
    /\ Resolvable(osr, cv)
    /\ LET out == PyAt(osr.json, cv)
       IN  Get(out, "spent", FALSE) /\ Truthy(Get(out, "txid", None))

\* the get_tx_json calls of one iteration: which were made and what each answered
Fetched(osr, cv, force, src, sp, sp2) ==
    [force |-> force,
     asked_src |-> NeedsSource(osr, cv, force), src |-> src,
     asked_sp |-> NeedsProxy(osr, cv, force, src), sp |-> sp,
     asked_addr |-> NeedsSpentTx(osr, cv), sp2 |-> sp2]

\* one iteration of "for hop in range(max_hops)"
TraceHop ==
    /\ pc = "tracing"
    /\ \E osr \in OutspendResponses :
       \E src \in IF NeedsSource(osr, cur_vout, req.force_vout) THEN TxResponses ELSE {Failure} :
       \E sp \in IF NeedsProxy(osr, cur_vout, req.force_vout, src) THEN TxResponses ELSE {Failure} :
       \E sp2 \in IF NeedsSpentTx(osr, cur_vout) THEN TxResponses ELSE {Failure} :
        /\ followed' = Append(followed, Followed(cur_tx, cur_vout, osr))
        /\ lookedup' = Append(lookedup, Fetched(osr, cur_vout, req.force_vout, src, sp, sp2))
        /\ IF ~osr.ok
           THEN /\ chain' = Append(chain, OutspendsErrorHop(cur_tx, cur_vout))
                /\ pc' = "done"
                /\ calls' = calls + 1
                /\ UNCHANGED <<cur_tx, cur_vout, hop>>
           ELSE IF IndexOutOfRange(cur_vout, Len(osr.json))
           THEN /\ chain' = Append(chain, OutOfRangeHop(cur_tx, cur_vout))
                /\ pc' = "done"
                /\ calls' = calls + 1
                /\ UNCHANGED <<cur_tx, cur_vout, hop>>
           ELSE IF ~PyIndexOK(cur_vout, Len(osr.json))
           THEN \* outspends[cur_vout] raises IndexError, which nothing catches
                /\ pc' = "raised"
                /\ calls' = calls + 1
                /\ UNCHANGED <<chain, cur_tx, cur_vout, hop>>
           ELSE LET out == PyAt(osr.json, cur_vout)
                    val == ResolveValue(out, cur_vout, req.force_vout, src, sp)
                    sa  == SpentAddr(out, sp2)
                IN  /\ chain' = Append(chain, HopRecord(cur_tx, cur_vout, out, val, sa))
                    /\ calls' = calls + 1 + val.calls + sa.calls
                    /\ IF ChainEnds(out)
                       THEN /\ pc' = "done"
                            /\ UNCHANGED <<cur_tx, cur_vout, hop>>
                       ELSE /\ cur_tx' = Get(out, "txid", None)
                            /\ cur_vout' = 0
                            /\ hop' = hop + 1
                            /\ pc' = IF LoopContinues(hop, req.max_hops)
                                     THEN "tracing" ELSE "done"
    /\ UNCHANGED <<req, ufVars, batchVars, clusVars, restVars>>

NextPeel ==
    \/ \E txid \in PeelTxids, vout \in PeelVouts, max_hops \in PeelMaxHops,
          force_vout \in BOOLEAN : PeelStart(txid, vout, max_hops, force_vout)
    \/ TraceHop

SpecPeel == InitIdle /\ [][NextPeel]_vars

\* the loop runs to its end: an iteration is taken whenever one is due
FairPeel == SpecPeel /\ WF_vars(TraceHop)

\* The provider's answers so far describe a plain chain: the requested output
\* and then output 0 of each spending transaction, spent k times in a row,
\* the k+1-th followed output unspent.
SpentRun(k) ==
    /\ Len(followed) >= k + 1
    /\ followed[1].tx = req.txid /\ followed[1].idx = req.vout
    /\ \A i \in 1..k :
          /\ followed[i].status = "ok"
          /\ Get(followed[i].out, "spent", FALSE)
          /\ Truthy(Get(followed[i].out, "txid", None))
          /\ followed[i + 1].tx = followed[i].out.txid
          /\ followed[i + 1].idx = 0
    /\ followed[k + 1].status = "ok"
    /\ ~Get(followed[k + 1].out, "spent", FALSE)

\* C6: when the followed outputs are spent k times in a row and the k+1-th
\* is unspent, with k+1 <= max_hops, the returned chain has exactly k+1 hops,
\* the first k marked spent, the last unspent and without an error tag.
TracePlainChain ==
    pc = "done" =>
        \A k \in 0..(MaxHops + 1) :
            (k + 1 <= req.max_hops /\ SpentRun(k)) =>
                /\ Len(chain) = k + 1
                /\ \A i \in 1..k : "error" \notin DOMAIN chain[i] /\ chain[i].spent
                /\ "error" \notin DOMAIN chain[k + 1]
                /\ ~chain[k + 1].spent
                /\ \A i \in 1..(k + 1) : chain[i].from_tx = followed[i].tx

\* The spec's case: (T1,0) spent in T2, T2's output 0 unspent, two hops returned.
TraceTwoHops ==
    /\ pc = "done" /\ req.txid = "T1" /\ req.vout = 0 /\ req.max_hops >= 2
    /\ SpentRun(1) /\ followed[2].tx = "T2"
    /\ Len(chain) = 2

\* the provider's last answer would have let the chain go on
CouldGoOn ==
    /\ followed # << >>
    /\ followed[Len(followed)].status = "ok"
    /\ Get(followed[Len(followed)].out, "spent", FALSE)
    /\ Truthy(Get(followed[Len(followed)].out, "txid", None))

TraceBound ==
    /\ Len(chain) <= (IF req.max_hops > 0 THEN req.max_hops ELSE 0)
    /\ Len(followed) <= (IF req.max_hops > 0 THEN req.max_hops ELSE 0)
    /\ (pc = "done" /\ CouldGoOn) =>
          /\ Len(chain) = req.max_hops
          /\ "error" \notin DOMAIN chain[Len(chain)]
    /\ pc = "raised" => req.vout < 0

\* C7: whatever the provider answers (cycles in the spend data, failing
\* lookups), the loop of trace_peel_chain ends, and for a request with an
\* output index >= 0 it ends by returning; the chain never holds more than
\* max_hops hops, and a chain cut off by max_hops alone ends in a hop
\* without an error tag.
TraceTerminatesBounded ==
    /\ []TraceBound
    /\ (pc = "tracing") ~> (pc # "tracing")

\* The spend data cycles (T1's output 0 is spent in T1 again) and the chain
\* was cut off at max_hops.
TraceCutOffOnCycle ==
    /\ pc = "done" /\ req.vout >= 0 /\ CouldGoOn
    /\ Len(chain) = req.max_hops /\ Len(chain) >= 2
    /\ \A i \in 1..Len(chain) : chain[i].from_tx = "T1" /\ chain[i].spent_in_tx = "T1"

\* C8: a failed spend-status query, or an output index that is not within
\* the returned list, appends exactly one error-tagged hop and ends the
\* trace, which returns normally; an error-tagged hop is always the last.
TraceErrorIsLocal ==
    /\ pc # "raised"
    /\ \A i \in 1..Len(chain) : "error" \in DOMAIN chain[i] => i = Len(chain)
    /\ (followed # << >> /\ followed[Len(followed)].status \in {"failed", "out_of_range"}) =>
          /\ pc = "done"
          /\ Len(chain) = Len(followed)
          /\ "error" \in DOMAIN chain[Len(chain)]

\* C24: in every chain the tracer builds, each hop after the first has
\* from_vout 0 and from_tx equal to the previous hop's spent_in_tx, and the
\* previous hop is marked spent with a non-empty spending txid; a hop that is
\* unspent or has no spending txid is the last hop.  When the lookup of the
\* spending transaction for the display address fails, spent_addr stays empty
\* and the trace still moves on to output 0 of the spending transaction
\* (unless max_hops is used up).
TraceAdvances ==
    /\ \A i \in 2..Len(chain) :
          /\ chain[i].from_vout = 0
          /\ "error" \notin DOMAIN chain[i - 1]
          /\ chain[i - 1].spent
          /\ Truthy(chain[i - 1].spent_in_tx)
          /\ chain[i].from_tx = chain[i - 1].spent_in_tx
    /\ \A i \in 1..Len(chain) :
          ("error" \notin DOMAIN chain[i] /\ (~chain[i].spent \/ ~Truthy(chain[i].spent_in_tx)))
              => i = Len(chain) /\ pc = "done"
    /\ \A i \in 1..Len(lookedup) :
          (lookedup[i].asked_addr /\ ~lookedup[i].sp2.ok) =>
              /\ Len(chain) >= i
              /\ chain[i].spent_addr = None
              /\ i < req.max_hops =>
                    \/ Len(chain) > i
                    \/ pc = "tracing" /\ cur_tx = chain[i].spent_in_tx /\ cur_vout = 0

\* The display-address lookup of the first hop failed and a second hop followed.
AdvancedPastAddrFailure ==
    /\ pc = "done" /\ Len(chain) = 2
    /\ lookedup[1].asked_addr /\ ~lookedup[1].sp2.ok
    /\ chain[1].spent_addr = None /\ chain[1].spent_in_tx = "T2"
    /\ chain[2].from_tx = "T2" /\ chain[2].from_vout = 0
    /\ "error" \notin DOMAIN chain[2]

\* iteration i found nothing to resolve the value from: the spend-status
\* entry has no value, the source transaction failed or lacks the index, and
\* the output is unspent or its spending transaction gave no positive output
NothingYieldsValue(i) ==
    /\ followed[i].status = "ok"
    /\ "value" \notin DOMAIN followed[i].out
    /\ lookedup[i].asked_src
    /\ \/ ~lookedup[i].src.ok
       \/ followed[i].idx >= Len(lookedup[i].src.json.vout)
    /\ \/ ~Get(followed[i].out, "spent", FALSE)
       \/ /\ lookedup[i].asked_sp
          /\ \/ ~lookedup[i].sp.ok
             \/ MaxValue(lookedup[i].sp.json.vout) <= 0

\* C21: when no step of the value fallback chain yields a value for a hop,
\* the recorded hop has value_sats 0 and value_source exactly "unknown".
NoValueIsUnknown ==
    \A i \in 1..Len(chain) :
        ("error" \notin DOMAIN chain[i] /\ NothingYieldsValue(i)) =>
            /\ chain[i].value_sats = 0
            /\ chain[i].value_source = "unknown"

\* C27: every hop recorded without an error tag carries a value_source, also
\* the hop whose value is the spend-status entry's own.
HopsCarryProvenance ==
    \A i \in 1..Len(chain) :
        "error" \notin DOMAIN chain[i] => chain[i].value_source # None

\* C9: a request with an empty txid, a negative output index or a negative
\* max-hop count is rejected before any provider call and is never traced.
MisuseRejected ==
    (pc # "idle" /\ (req.txid = "" \/ req.vout < 0 \/ req.max_hops < 0)) =>
        /\ pc = "rejected"
        /\ calls = 0
        /\ chain = << >>

(***************************************************************************)
(* Transactions as GET /tx/:txid and GET /address/:addr/txs return them.   *)
(* An input whose prevout carries no scriptpubkey_address is an input of   *)
(* unknown address.  Scores are in thousandths.                            *)
(***************************************************************************)
KnownIn(a) ==
    [prevout |-> [scriptpubkey_address |-> a, value |-> 200000,
                  scriptpubkey_type |-> "v0_p2wpkh"]]

UnknownIn == [prevout |-> [value |-> 200000]]

ChangeOut(a) == [scriptpubkey_address |-> a, value |-> 1234, scriptpubkey_type |-> "v0_p2wpkh"]

PayOut(a) == [scriptpubkey_address |-> a, value |-> 100000, scriptpubkey_type |-> "p2sh"]

VinLists ==
    { <<KnownIn("a1")>>,
      <<KnownIn("a1"), KnownIn("a2")>>,
      <<KnownIn("a3"), KnownIn("a2")>>,
      <<KnownIn("a1"), UnknownIn>>,
      <<UnknownIn, KnownIn("a2")>> }

VoutLists ==
    { <<ChangeOut("a4"), PayOut("a5")>>,
      <<PayOut("a5"), ChangeOut("a2")>>,
      <<PayOut("a5")>> }

TxBodies == {[vin |-> i, vout |-> o] : i \in VinLists, o \in VoutLists}

WithTxid(body, txid) == [txid |-> txid, vin |-> body.vin, vout |-> body.vout]

\* vin.get("prevout") or {}
Prevout(vin) == Get(vin, "prevout", [k \in {} |-> k])

RECURSIVE SumSeq(_)
SumSeq(q) == IF q = << >> THEN 0 ELSE Head(q) + SumSeq(Tail(q))

\* [f(x) for x in q]
ValuesOf(q) == [i \in 1..Len(q) |-> Get(q[i], "value", 0)]

(***************************************************************************)
(* detect_coinjoin (src/app.py 76-86).  With n positive output values of   *)
(* sum S and sum of squares Q, sd = sqrt(n*Q - S*S) / n, mean = S / n,     *)
(* rel = sd / (mean + 1e-9) and score = max(0, 1 - min(rel / 0.05, 1)).    *)
(***************************************************************************)
RECURSIVE Gcd(_, _)
Gcd(a, b) == IF b = 0 THEN a ELSE Gcd(b, a % b)

RECURSIVE PositiveValues(_)
PositiveValues(vouts) ==
    IF vouts = << >> THEN << >>
    ELSE IF Get(Head(vouts), "value", 0) > 0
         THEN <<Get(Head(vouts), "value", 0)>> \o PositiveValues(Tail(vouts))
         ELSE PositiveValues(Tail(vouts))

RECURSIVE GcdAll(_)
GcdAll(q) == IF q = << >> THEN 0 ELSE Gcd(Head(q), GcdAll(Tail(q)))

\* the values in units of their common divisor: stddev/mean is the same and
\* the squares below stay within the integers' width
Reduced(values) == [i \in 1..Len(values) |-> values[i] \div GcdAll(values)]

\* n^2 * variance, for S the sum and Q the sum of squares of n values
VarianceN2(n, S, Q) == n * Q - S * S

\* rel >= p/q, for rel = sd/(mean + 1e-9) with sd = sqrt(V)/n and mean = S/n:
\* q*sqrt(V) >= p*(S + n*1e-9).  V and S are integers and, at the sizes
\* modelled, n*1e-9 is smaller than any gap between q*sqrt(V) and p*S that
\* is not zero; when the two are equal the 1e-9 makes rel the smaller.
RelAtLeast(V, S, p, q) == (q * q) * V > (p * p) * (S * S)

\* detect_coinjoin (src/app.py 76-86).  score is in hundredths, rounded
\* down; exact tells that the score is exactly that many hundredths.
detect_coinjoin(tx) ==
    LET vin    == Get(tx, "vin", << >>)
        vout   == Get(tx, "vout", << >>)
        values == Reduced(PositiveValues(vout))
        n      == Len(values)
        S      == SumSeq(values)
        Q      == SumSeq([i \in 1..n |-> values[i] * values[i]])
        V      == VarianceN2(n, S, Q)
    IN  IF Len(vin) >= 5 /\ Len(vout) >= 5
        THEN IF values = << >> THEN [coinjoin |-> FALSE, score |-> 0, exact |-> TRUE]
             ELSE IF V = 0 THEN [coinjoin |-> TRUE, score |-> 100, exact |-> TRUE]
             ELSE IF RelAtLeast(V, S, 1, 20) THEN [coinjoin |-> FALSE, score |-> 0, exact |-> TRUE]
             ELSE [coinjoin |-> ~RelAtLeast(V, S, 1, 50),
                   \* 100 - d, for d the least number of hundredths >= rel/0.05
                   score |-> 100 - (CHOOSE d \in 1..100 :
                                     /\ (d * S) * (d * S) >= 4000000 * V
                                     /\ ((d - 1) * S) * ((d - 1) * S) < 4000000 * V),
                   exact |-> FALSE]
        ELSE [coinjoin |-> FALSE, score |-> 0, exact |-> TRUE]

\* trailing_zeros_in_sats (src/app.py 1176-1184)
RECURSIVE trailing_zeros_in_sats(_)
trailing_zeros_in_sats(sats) ==
    IF sats <= 0 THEN 0
    ELSE IF sats % 10 = 0 THEN 1 + trailing_zeros_in_sats(sats \div 10)
    ELSE 0

\* len(f"{sats/1e8:.8f}".split(".")[1].rstrip("0")): the eight decimals of
\* the BTC amount with the trailing zeros cut
DecLen(sats) ==
    LET frac == sats % 100000000
    IN  IF frac = 0 THEN 0 ELSE 8 - trailing_zeros_in_sats(frac)

\* vin_script_types, in input order
RECURSIVE VinScriptTypes(_)
VinScriptTypes(vins) ==
    IF vins = << >> THEN << >>
    ELSE LET st == Get(Prevout(Head(vins)), "scriptpubkey_type", None)
         IN  (IF Truthy(st) THEN <<st>> ELSE << >>) \o VinScriptTypes(Tail(vins))

Count(q, x) == Cardinality({i \in 1..Len(q) : q[i] = x})

\* max(set(types), key=types.count): the first, in the set's iteration
\* order, of the most frequent types.  The iteration order of a set of
\* strings follows their hashes, which are salted anew for every process
\* (set_order).
MajorScript(types) ==
    IF types = << >> THEN None
    ELSE LET best == {t \in Range(types) :
                         \A u \in Range(types) : Count(types, u) <= Count(types, t)}
         IN  IF Cardinality(best) = 1 THEN CHOOSE t \in best : TRUE
             ELSE set_order[CHOOSE i \in 1..Len(set_order) :
                                /\ set_order[i] \in best
                                /\ \A j \in 1..(i - 1) : set_order[j] \notin best]

\* "NON_STD_{idx}" for the 0-based idx
NonStdName(idx) == "NON_STD_" \o ToString(idx)

Clamp(lo, x, hi) == IF x < lo THEN lo ELSE IF x > hi THEN hi ELSE x

\* sats < total * 0.95, as 20 * sats < 19 * total without leaving the
\* integers' width: total = 20 * q + r, so 0.95 * total = 19 * q + 19 * r / 20
Below95(sats, total) ==
    LET q == total \div 20
        r == total % 20
        d == sats - 19 * q
    IN  IF d <= 0 THEN d < 0 \/ r > 0
        ELSE IF d >= 19 THEN FALSE
        ELSE 20 * d < 19 * r

\* one pass of the loop over the outputs (src/app.py 1232-1280); i is 1-based
ScoreOutput(v, i, major_script, total_in, is_coinjoin_like) ==
    LET a    == Get(v, "scriptpubkey_address", None)
        addr == IF Truthy(a) THEN a ELSE NonStdName(i - 1)
        sats == Get(v, "value", 0)
        hd   == DecLen(sats) >= 6
        ra   == trailing_zeros_in_sats(sats) >= 5
        sm   == Truthy(major_script) /\ Get(v, "scriptpubkey_type", None) = major_script
        \* 0 < sats < total_in * 0.95
        sl   == total_in > 0 /\ 0 < sats /\ Below95(sats, total_in)
        score == (IF hd THEN 200 ELSE 0) - (IF ra THEN 150 ELSE 0) + (IF sm THEN 150 ELSE 0)
                 + (IF sl THEN 100 ELSE 0) - (IF is_coinjoin_like THEN 200 ELSE 0)
    IN  [vout_index |-> i - 1, address |-> addr, value_sats |-> sats,
         score |-> Clamp(0 - 1000, score, 1000),
         flags |-> (IF hd THEN <<"high_decimal">> ELSE << >>)
                   \o (IF ra THEN <<"round_amount">> ELSE << >>)
                   \o (IF sm THEN <<"script_match">> ELSE << >>)
                   \o (IF sl THEN <<"smaller_than_inputs">> ELSE << >>)
                   \o (IF is_coinjoin_like THEN <<"coinjoin_like">> ELSE << >>)]

\* A wrong boost: the score is raised but the output is not tagged.
SolePositiveBoost_untagged(results) ==
    LET positive == {i \in 1..Len(results) : results[i].score > 0}
    IN  IF Cardinality(positive) = 1
        THEN [i \in 1..Len(results) |->
                 IF i \in positive
                 THEN [results[i] EXCEPT !.score = IF @ + 120 > 1000 THEN 1000 ELSE @ + 120]
                 ELSE results[i]]
        ELSE results

\* A wrong boost: of several positive outputs the first one is boosted.
SolePositiveBoost_firstWins(results) ==
    LET positive == {i \in 1..Len(results) : results[i].score > 0}
    IN  IF positive # {}
        THEN [i \in 1..Len(results) |->
                 IF i \in positive /\ \A j \in positive : i <= j
                 THEN [results[i] EXCEPT !.score = IF @ + 120 > 1000 THEN 1000 ELSE @ + 120,
                                         !.flags = Append(@, "sole_positive_boost")]
                 ELSE results[i]]
        ELSE results

\* the sole-positive boost (src/app.py 1282-1286)
SolePositiveBoost(results) ==
    LET positive == {i \in 1..Len(results) : results[i].score > 0}
    IN  IF Cardinality(positive) = 1
        THEN [i \in 1..Len(results) |->
                 IF i \in positive
                 THEN [results[i] EXCEPT !.score = IF @ + 120 > 1000 THEN 1000 ELSE @ + 120,
                                         !.flags = Append(@, "sole_positive_boost")]
                 ELSE results[i]]
        ELSE results

\* the loop over the outputs (src/app.py 1209-1280): the results before the boost
ResultsBeforeBoost(tx) ==
    LET vouts  == Get(tx, "vout", << >>)
        vins   == Get(tx, "vin", << >>)
        values == ValuesOf(vouts)
        is_coinjoin_like == \E i, j \in 1..Len(values) : i # j /\ values[i] = values[j]
        major_script == MajorScript(VinScriptTypes(vins))
        sum_in == SumSeq([i \in 1..Len(vins) |-> Get(Prevout(vins[i]), "value", 0)])
        total_in == IF sum_in = 0 THEN 1 ELSE sum_in
    IN  [i \in 1..Len(vouts) |->
            ScoreOutput(vouts[i], i, major_script, total_in, is_coinjoin_like)]

\* detect_change_candidates_for_tx (src/app.py 1199-1288)
detect_change_candidates_for_tx(tx) == SolePositiveBoost(ResultsBeforeBoost(tx))

\* max(xs + [0])
RECURSIVE MaxOf(_)
MaxOf(q) ==
    IF q = << >> THEN 0
    ELSE LET m == MaxOf(Tail(q)) IN IF Head(q) > m THEN Head(q) ELSE m

\* the values of the key k of the inputs' prevouts that have the key
RECURSIVE PrevoutsWith(_, _)
PrevoutsWith(vins, k) ==
    IF vins = << >> THEN << >>
    ELSE (IF k \in DOMAIN Prevout(Head(vins)) THEN <<Prevout(Head(vins))[k]>> ELSE << >>)
         \o PrevoutsWith(Tail(vins), k)

\* one pass of the simple scorer's loop (src/app.py 99-104); i is 1-based
SimpleScoreOutput(vout, i, vin_addrs, majority_script, max_in) ==
    LET addr == Get(vout, "scriptpubkey_address", None)
        sval == Get(vout, "value", 0)
        score == (IF Truthy(addr) /\ addr \in Range(vin_addrs) THEN 400 ELSE 0)
                 + (IF Truthy(majority_script)
                       /\ Get(vout, "scriptpubkey_type", None) = majority_script
                    THEN 200 ELSE 0)
                 + (IF max_in > 0 /\ Below95(sval, max_in) /\ sval > 0 THEN 200 ELSE 0)
    IN  [vout_index |-> i - 1,
         address |-> IF Truthy(addr) THEN addr ELSE "NON_STANDARD",
         value |-> sval,
         score |-> IF score > 1000 THEN 1000 ELSE score]

\* the simple scorer's boost (src/app.py 105-106)
SimpleSoleBoost(out_scores) ==
    LET positive == {i \in 1..Len(out_scores) : out_scores[i].score > 0}
    IN  IF Cardinality(positive) = 1
        THEN [i \in 1..Len(out_scores) |->
                 IF i \in positive
                 THEN [out_scores[i] EXCEPT !.score = IF @ + 150 > 1000 THEN 1000 ELSE @ + 150]
                 ELSE out_scores[i]]
        ELSE out_scores

\* the loop over the outputs (src/app.py 89-104): out_scores before the boost
OutScoresBeforeBoost(tx) ==
    LET vins  == Get(tx, "vin", << >>)
        vouts == Get(tx, "vout", << >>)
        vin_addrs == PrevoutsWith(vins, "scriptpubkey_address")
        vin_script_types == PrevoutsWith(vins, "scriptpubkey_type")
        majority_script == MajorScript(vin_script_types)
        max_in == MaxOf([i \in 1..Len(vins) |-> Get(Prevout(vins[i]), "value", 0)])
    IN  [i \in 1..Len(vouts) |->
            SimpleScoreOutput(vouts[i], i, vin_addrs, majority_script, max_in)]

\* change_candidate_scores (src/app.py 88-107), scores in thousandths
change_candidate_scores(tx) == SimpleSoleBoost(OutScoresBeforeBoost(tx))

(***************************************************************************)
(* The bipartite edges and their projection (src/app.py 109-136).          *)
(***************************************************************************)
add_bipartite_edges_for_tx(tx, edges) ==
    LET txid == tx.txid
        vins == Get(tx, "vin", << >>)
        vouts == Get(tx, "vout", << >>)
        ins  == [i \in 1..Len(vins) |->
                    LET a == Get(Prevout(vins[i]), "scriptpubkey_address", None)
                    IN  [type |-> "addr->tx",
                         from |-> IF Truthy(a) THEN a ELSE "UNKNOWN_INPUT",
                         to |-> "tx:" \o txid,
                         sats |-> Get(Prevout(vins[i]), "value", 0), txid |-> txid]]
        outs == [i \in 1..Len(vouts) |->
                    LET a == Get(vouts[i], "scriptpubkey_address", None)
                    IN  [type |-> "tx->addr", from |-> "tx:" \o txid,
                         to |-> IF Truthy(a) THEN a ELSE "NON_STD_VOUT_" \o ToString(i - 1),
                         sats |-> Get(vouts[i], "value", 0), txid |-> txid]]
    IN  edges \o ins \o outs

\* int(round((x / d) * y)) for x, y >= 0 and d > 0, in exact arithmetic:
\* round() takes the even neighbour at a half
RoundShare(x, d, y) ==
    LET g1 == Gcd(x, d)
        x1 == x \div g1
        d1 == d \div g1
        g2 == Gcd(y, d1)
        num == x1 * (y \div g2)
        den == d1 \div g2
        q == num \div den
        r == num % den
    IN  IF 2 * r < den THEN q
        ELSE IF 2 * r > den THEN q + 1
        ELSE IF q % 2 = 0 THEN q ELSE q + 1

\* the txids of the edges in order of first appearance (the code iterates a set)
RECURSIVE EdgeTxids(_, _)
EdgeTxids(edges, acc) ==
    IF edges = << >> THEN acc
    ELSE EdgeTxids(Tail(edges),
                   IF Head(edges).txid \in Range(acc) THEN acc ELSE Append(acc, Head(edges).txid))

RECURSIVE SelectEdges(_, _, _)
SelectEdges(edges, txid, type) ==
    IF edges = << >> THEN << >>
    ELSE (IF Head(edges).txid = txid /\ Head(edges).type = type THEN <<Head(edges)>> ELSE << >>)
         \o SelectEdges(Tail(edges), txid, type)

RECURSIVE Flatten(_)
Flatten(qq) == IF qq = << >> THEN << >> ELSE Head(qq) \o Flatten(Tail(qq))

\* A wrong projection: an edge is emitted for a share of zero as well.
ProjectTx_keepZero(edges, txid) ==
    LET inputs  == SelectEdges(edges, txid, "addr->tx")
        outputs == SelectEdges(edges, txid, "tx->addr")
        sum_in  == SumSeq([i \in 1..Len(inputs) |-> inputs[i].sats])
        total_in == IF sum_in = 0 THEN 1 ELSE sum_in
    IN  Flatten([o \in 1..Len(outputs) |->
            [i \in 1..Len(inputs) |->
                [txid |-> txid, from |-> inputs[i].from, to |-> outputs[o].to,
                 sats |-> RoundShare(inputs[i].sats, total_in, outputs[o].sats)]]])

\* the edges projected for one txid: for each output, for each input
ProjectTx(edges, txid) ==
    LET inputs  == SelectEdges(edges, txid, "addr->tx")
        outputs == SelectEdges(edges, txid, "tx->addr")
        sum_in  == SumSeq([i \in 1..Len(inputs) |-> inputs[i].sats])
        total_in == IF sum_in = 0 THEN 1 ELSE sum_in
    IN  Flatten([o \in 1..Len(outputs) |->
            Flatten([i \in 1..Len(inputs) |->
                \* share <= 0, the values being non-negative and total_in > 0
                IF inputs[i].sats <= 0 \/ outputs[o].sats <= 0 THEN << >>
                ELSE <<[txid |-> txid, from |-> inputs[i].from, to |-> outputs[o].to,
                        sats |-> RoundShare(inputs[i].sats, total_in, outputs[o].sats)]>>])])

project_address_to_address(edges) ==
    LET ids == EdgeTxids(edges, << >>)
    IN  Flatten([k \in 1..Len(ids) |-> ProjectTx(edges, ids[k])])

(***************************************************************************)
(* analyze() and process_txids (src/app.py 526-543, 178-224).              *)
(***************************************************************************)
MaxBatch == 2

BatchLines == {"", "T1", "T2"}

RECURSIVE NonEmpty(_)
NonEmpty(ls) ==
    IF ls = << >> THEN << >>
    ELSE (IF Head(ls) = "" THEN << >> ELSE <<Head(ls)>>) \o NonEmpty(Tail(ls))

SeqsUpTo(S, n) == UNION {[1..k -> S] : k \in 0..n}

TxAnswers == {Failure} \cup {[ok |-> TRUE, json |-> b] : b \in TxBodies}

\* the input addresses process_txids collects: an unknown one as a placeholder
BatchInputs(tx) ==
    LET vins == Get(tx, "vin", << >>)
    IN  [i \in 1..Len(vins) |->
            LET a == Get(Prevout(vins[i]), "scriptpubkey_address", None)
            IN  IF Truthy(a) THEN a ELSE "UNKNOWN_INPUT"]

\* base = inputs[0]; for other in inputs[1:]: uf.union(base, other)
RECURSIVE UnionAll(_, _, _)
UnionAll(u, base, others) ==
    IF others = << >> THEN u
    ELSE UnionAll(union(u, base, Head(others)), base, Tail(others))

UnionInputs(u, inputs) ==
    IF Len(inputs) >= 2 THEN UnionAll(u, inputs[1], Tail(inputs)) ELSE u

\* POST /analyze up to the loop of process_txids
AnalyzeStart(lines) ==
    /\ bpc = "idle"
    /\ LET txs == NonEmpty(lines)
       IN  IF txs = << >>
           THEN bpc' = "rejected" /\ UNCHANGED txid_list
           ELSE bpc' = "running" /\ txid_list' = txs
    /\ UNCHANGED <<bpos, buf, bip_edges, tx_flags, lookups, bout, ufVars, peelVars, clusVars, restVars>>

\* one iteration of "for txid in txid_list"; a failed get_tx_json raises out
\* of process_txids and analyze() removes the run's directory
BatchTx ==
    /\ bpc = "running" /\ bpos <= Len(txid_list)
    /\ \E ans \in TxAnswers :
        /\ lookups' = Append(lookups, [txid |-> txid_list[bpos], ok |-> ans.ok,
                                       json |-> Get(ans, "json", None)])
        /\ IF ~ans.ok
           THEN /\ bpc' = "failed"
                /\ buf' = UnionFind /\ bip_edges' = << >> /\ tx_flags' = << >>
                /\ UNCHANGED bpos
           ELSE LET tx == WithTxid(ans.json, txid_list[bpos])
                    cj == detect_coinjoin(tx)
                IN  /\ tx_flags' = Append(tx_flags,
                            [txid |-> txid_list[bpos], coinjoin |-> cj.coinjoin,
                             coinjoin_score |-> cj.score,
                             change_scores |-> detect_change_candidates_for_tx(tx)])
                    /\ buf' = UnionInputs(buf, BatchInputs(tx))
                    /\ bip_edges' = add_bipartite_edges_for_tx(tx, bip_edges)
                    /\ bpos' = bpos + 1
                    /\ UNCHANGED bpc
    /\ UNCHANGED <<txid_list, bout, ufVars, peelVars, clusVars, restVars>>

\* after the loop: the projection, the clusters, the files analyze() renders
BatchFinish ==
    /\ bpc = "running" /\ bpos > Len(txid_list)
    /\ LET g == groups(buf)
       IN  /\ buf' = g.uf
           /\ bout' = [clusters |-> g.ret,
                       projected |-> project_address_to_address(bip_edges),
                       flags |-> tx_flags, bip |-> bip_edges]
    /\ bpc' = "done"
    /\ UNCHANGED <<txid_list, bpos, bip_edges, tx_flags, lookups, ufVars, peelVars, clusVars, restVars>>

NextBatch ==
    \/ \E lines \in SeqsUpTo(BatchLines, MaxBatch) : AnalyzeStart(lines)
    \/ BatchTx
    \/ BatchFinish

SpecBatch == InitIdle /\ [][NextBatch]_vars

\* the known input addresses of a transaction
KnownInputSet(tx) ==
    {a \in {Get(Prevout(Get(tx, "vin", << >>)[i]), "scriptpubkey_address", None) :
                i \in 1..Len(Get(tx, "vin", << >>))} : Truthy(a)}

\* the addresses linked to those of S by a chain of transactions of txset
\* through known input addresses spent together
RECURSIVE Linked(_, _)
Linked(S, txset) ==
    LET S2 == S \cup UNION {KnownInputSet(tx) : tx \in {t \in txset : KnownInputSet(t) \cap S # {}}}
    IN  IF S2 = S THEN S ELSE Linked(S2, txset)

\* the transactions the batch scan has processed
BatchProcessed == {lookups[i].json : i \in {j \in 1..Len(lookups) : lookups[j].ok}}

\* C1: an input of unknown address contributes no union: two known addresses
\* share a cluster only if a chain of transactions links them through known
\* input addresses spent together, and no placeholder for an unknown input
\* is a cluster member.
UnknownInputsUnionNothing ==
    bpc = "done" =>
        \A r \in DOMAIN bout.clusters :
            /\ "UNKNOWN_INPUT" \notin Range(bout.clusters[r])
            /\ \A a, b \in Range(bout.clusters[r]) \cap Addr : b \in Linked({a}, BatchProcessed)

\* C10: a failed lookup for one txid degrades only that transaction: the scan
\* goes on to the end of the list and the transactions that could be fetched
\* have their flags and edges in the result.
BatchFailureIsLocal ==
    bpc \in {"done", "failed"} =>
        /\ bpc = "done"
        /\ Len(lookups) = Len(txid_list)
        /\ \A i \in 1..Len(lookups) :
              lookups[i].ok =>
                  /\ \E j \in 1..Len(bout.flags) : bout.flags[j].txid = lookups[i].txid
                  /\ \E j \in 1..Len(bout.bip) : bout.bip[j].txid = lookups[i].txid

(***************************************************************************)
(* clusters() and cluster_from_address (src/app.py 1445-1463, 1290-1362),  *)
(* with get_address_txs (src/app.py 1122-1155).                            *)
(***************************************************************************)
MaxTxs == 2

PageSize == 25

TxName(i) == "T" \o ToString(i)

\* a page of GET /address/:addr/txs: transactions with their status
PageEntries ==
    {[body |-> b, confirmed |-> TRUE] : b \in TxBodies}
    \cup {[body |-> [vin |-> <<KnownIn("a1"), KnownIn("a3")>>, vout |-> <<PayOut("a5")>>],
           confirmed |-> FALSE]}

PageOf(es) ==
    [i \in 1..Len(es) |->
        [txid |-> TxName(i), vin |-> es[i].body.vin, vout |-> es[i].body.vout,
         status |-> [confirmed |-> es[i].confirmed]]]

PageAnswers ==
    {Failure} \cup {[ok |-> TRUE, json |-> PageOf(es)] : es \in SeqsUpTo(PageEntries, MaxTxs)}

\* for tx in page: skip the unconfirmed, append, stop at the limit
RECURSIVE TakePage(_, _, _, _)
TakePage(page, out, limit, confirmed_only) ==
    IF page = << >> THEN out
    ELSE IF confirmed_only /\ ~Get(Get(Head(page), "status", [k \in {} |-> k]), "confirmed", FALSE)
         THEN TakePage(Tail(page), out, limit, confirmed_only)
         ELSE IF Len(out) + 1 >= limit THEN Append(out, Head(page))
              ELSE TakePage(Tail(page), Append(out, Head(page)), limit, confirmed_only)

\* get_address_txs; pages are the provider's answers to the successive page requests
RECURSIVE get_address_txs(_, _, _, _)
get_address_txs(pages, out, limit, confirmed_only) ==
    IF ~(Len(out) < limit) \/ pages = << >> THEN out
    ELSE IF ~Head(pages).ok THEN out
    ELSE IF Head(pages).json = << >> THEN out
    ELSE LET out2 == TakePage(Head(pages).json, out, limit, confirmed_only)
         IN  IF Len(Head(pages).json) < PageSize THEN out2
             ELSE get_address_txs(Tail(pages), out2, limit, confirmed_only)

\* A wrong collection: an input of unknown address becomes a placeholder.
RECURSIVE ClusterInputs_withPlaceholder(_)
ClusterInputs_withPlaceholder(vins) ==
    IF vins = << >> THEN << >>
    ELSE LET a == Get(Prevout(Head(vins)), "scriptpubkey_address", None)
         IN  <<IF Truthy(a) THEN a ELSE "UNKNOWN_INPUT">>
             \o ClusterInputs_withPlaceholder(Tail(vins))

\* the known input addresses cluster_from_address collects, in input order
RECURSIVE ClusterInputs(_)
ClusterInputs(vins) ==
    IF vins = << >> THEN << >>
    ELSE LET a == Get(Prevout(Head(vins)), "scriptpubkey_address", None)
         IN  (IF Truthy(a) THEN <<a>> ELSE << >>) \o ClusterInputs(Tail(vins))

\* step 1: the common-input unions over every fetched transaction
RECURSIVE UnionTxs(_, _)
UnionTxs(u, txs) ==
    IF txs = << >> THEN u
    ELSE UnionTxs(UnionInputs(u, ClusterInputs(Get(Head(txs), "vin", << >>))), Tail(txs))

SeedIsInput(tx, seed) ==
    \E i \in 1..Len(Get(tx, "vin", << >>)) :
        Get(Prevout(tx.vin[i]), "scriptpubkey_address", None) = seed

RECURSIVE AtLeast(_, _, _)
AtLeast(cands, threshold, txid) ==
    IF cands = << >> THEN << >>
    ELSE (IF Head(cands).score >= threshold
          THEN <<Head(cands) @@ [source_tx |-> txid]>> ELSE << >>)
         \o AtLeast(Tail(cands), threshold, txid)

RECURSIVE UnionWithAll(_, _, _)
UnionWithAll(u, seed, cands) ==
    IF cands = << >> THEN u
    ELSE UnionWithAll(union(u, seed, Head(cands).address), seed, Tail(cands))

\* A wrong step 2: the candidates are unioned with the seed as well.
ScoreSeedTx_unioning(acc, seed, tx) ==
    LET cs == AtLeast(detect_change_candidates_for_tx(tx), 150, tx.txid)
    IN  [uf |-> UnionWithAll(acc.uf, seed, cs), candidates |-> acc.candidates \o cs]

\* step 2 for one transaction the seed is an input of: every output scoring
\* >= 0.15 is recorded as a candidate; the union-find is left as it is
ScoreSeedTx(acc, seed, tx) ==
    LET cs == AtLeast(detect_change_candidates_for_tx(tx), 150, tx.txid)
    IN  [uf |-> acc.uf, candidates |-> acc.candidates \o cs]

RECURSIVE ScoreSeedTxs(_, _, _, _)
ScoreSeedTxs(acc, seed, txs, seed_in_input_txids) ==
    IF txs = << >> THEN acc
    ELSE ScoreSeedTxs(IF Head(txs).txid \in seed_in_input_txids
                      THEN ScoreSeedTx(acc, seed, Head(txs)) ELSE acc,
                      seed, Tail(txs), seed_in_input_txids)

cluster_from_address(seed, pages, max_txs, confirmed_only) ==
    LET txs  == get_address_txs(pages, << >>, max_txs, confirmed_only)
        u1   == UnionTxs(UnionFind, txs)
        seed_in_input_txids == {txs[i].txid : i \in {j \in 1..Len(txs) : SeedIsInput(txs[j], seed)}}
        acc  == ScoreSeedTxs([uf |-> u1, candidates |-> << >>], seed, txs, seed_in_input_txids)
        g    == groups(acc.uf)
        root == find(g.uf, seed)
        ms   == Get(g.ret, root.ret, << >>)
    IN  [members |-> IF seed \in Range(ms) THEN ms ELSE Append(ms, seed),
         candidates |-> acc.candidates,
         txs_scanned |-> Len(txs),
         uf |-> root.uf]

ClusterSeeds == {"", "a1", "a2"}

\* POST /clusters
Clusters(addr, max_txs, confirmed_only, page) ==
    /\ cpc = "idle"
    /\ cin' = [seed |-> addr, pages |-> <<page>>, max_txs |-> max_txs,
               confirmed_only |-> confirmed_only]
    /\ IF addr = ""
       THEN cpc' = "rejected" /\ UNCHANGED cres
       ELSE /\ cpc' = "done"
            /\ cres' = cluster_from_address(addr, <<page>>, max_txs, confirmed_only)
    /\ UNCHANGED <<ufVars, peelVars, batchVars, restVars>>

NextCluster ==
    /\ cpc = "idle"
    /\ \E addr \in ClusterSeeds, max_txs \in 0..MaxTxs, confirmed_only \in BOOLEAN,
          page \in PageAnswers : Clusters(addr, max_txs, confirmed_only, page)

SpecCluster == InitIdle /\ [][NextCluster]_vars

\* the transactions the driver scanned
Scanned == Range(get_address_txs(cin.pages, << >>, cin.max_txs, cin.confirmed_only))

MaxRuns == 3

TxSummary(t) == [txid |-> t]

\* GET /address/:addr/txs as _cached_address_txs sees it
AddressTxsAnswers ==
    {Failure}
    \cup {[ok |-> TRUE, json |-> q] :
            q \in {<< >>, <<TxSummary("T1")>>, <<TxSummary("T2")>>,
                   <<TxSummary("T1"), TxSummary("T2")>>}}

\* _cached_address_txs: the entry if there is one, else the provider's answer
\* (the empty list on a failure), stored
cached_address_txs(cache, addr, answer) ==
    IF addr \in DOMAIN cache
    THEN [cache |-> cache, res |-> cache[addr], fetched |-> FALSE]
    ELSE LET res == IF answer.ok THEN answer.json ELSE << >>
         IN  [cache |-> [a \in DOMAIN cache \cup {addr} |-> IF a = addr THEN res ELSE cache[a]],
              res |-> res, fetched |-> TRUE]

is_address_single_use_in_tx(txs, txid) ==
    IF txs = << >> THEN FALSE
    ELSE Len(txs) = 1 /\ Get(txs[1], "txid", None) = txid

SingleUse(addr, txid, answer) ==
    /\ LET c == cached_address_txs(ADDRESS_TXS_CACHE, addr, answer)
       IN  /\ ADDRESS_TXS_CACHE' = c.cache
           /\ written_in' = IF c.fetched
                            THEN [a \in DOMAIN c.cache |-> IF a = addr THEN run ELSE written_in[a]]
                            ELSE written_in
           /\ single' = [op |-> "single_use", addr |-> addr, txid |-> txid,
                         fetched |-> c.fetched, txs |-> c.res,
                         ret |-> is_address_single_use_in_tx(c.res, txid)]
    /\ UNCHANGED <<run, ufVars, peelVars, batchVars, clusVars, fnVars, procVars>>

\* the next analysis request begins; no handler touches ADDRESS_TXS_CACHE
NewRun ==
    /\ run < MaxRuns
    /\ run' = run + 1
    /\ single' = [op |-> "new_run"]
    /\ UNCHANGED <<ADDRESS_TXS_CACHE, written_in, ufVars, peelVars, batchVars, clusVars, fnVars, procVars>>

NextCache ==
    \/ \E addr \in Addr, txid \in Tx, answer \in AddressTxsAnswers : SingleUse(addr, txid, answer)
    \/ NewRun

SpecCache == InitIdle /\ [][NextCache]_vars

\* C11: the address-history cache is scoped to one run: a lookup is answered
\* from the cache only by an entry stored in the run in progress, and the
\* cache holds no entry of an earlier run, so it does not grow from run to run.
CacheScopedToRun ==
    /\ (single.op = "single_use" /\ ~single.fetched) => written_in[single.addr] = run
    /\ \A a \in DOMAIN ADDRESS_TXS_CACHE : written_in[a] = run

(***************************************************************************)
(* add_bipartite_edges_for_tx then project_address_to_address on one       *)
(* transaction (src/app.py 109-136).                                       *)
(***************************************************************************)
MaxIns == 2
MaxOuts == 2
MaxSats == 3

InAddr(i) == "a" \o ToString(i)
OutAddr(i) == "b" \o ToString(i)

\* a transaction with the given input and output values
TxOfValues(ins, outs) ==
    [txid |-> "T1",
     vin  |-> [i \in 1..Len(ins) |->
                  [prevout |-> [value |-> ins[i], scriptpubkey_address |-> InAddr(i)]]],
     vout |-> [i \in 1..Len(outs) |->
                  [value |-> outs[i], scriptpubkey_address |-> OutAddr(i)]]]

ProjectorTxs ==
    {TxOfValues(ins, outs) : ins \in SeqsUpTo(0..MaxSats, MaxIns),
                             outs \in SeqsUpTo(0..MaxSats, MaxOuts)}
    \cup {TxOfValues(<<100000>>, <<60000, 40000>>)}

Project(tx) ==
    /\ fn = "none"
    /\ fn' = "project"
    /\ arg' = tx
    /\ LET bip == add_bipartite_edges_for_tx(tx, << >>)
       IN  ret' = [bip |-> bip, projected |-> project_address_to_address(bip)]
    /\ UNCHANGED <<ufVars, peelVars, batchVars, clusVars, cacheVars, procVars>>

NextProject == fn = "none" /\ \E tx \in ProjectorTxs : Project(tx)

SpecProject == InitIdle /\ [][NextProject]_vars

\* C12: the sats of the projected edges of a transaction sum to no more than
\* the transaction's output values.
ProjectedWithinOutputs ==
    fn = "project" =>
        SumSeq([i \in 1..Len(ret.projected) |-> ret.projected[i].sats])
            <= SumSeq([i \in 1..Len(arg.vout) |-> arg.vout[i].value])

\* C25: the projector drops zero and negative shares: every projected edge
\* has sats >= 1, also for a positive share that rounds to 0.
ProjectedEdgesPositive ==
    fn = "project" =>
        \A i \in 1..Len(ret.projected) : ret.projected[i].sats >= 1

PositiveInputs(tx) == {i \in 1..Len(tx.vin) : tx.vin[i].prevout.value > 0}

EdgesTo(edges, a) == {i \in 1..Len(edges) : edges[i].to = a}

\* C13: with exactly one input of positive value, each output of positive
\* value gets exactly one projected edge, from that input's address and of
\* exactly the output's value.
SingleInputSplitExact ==
    (fn = "project" /\ Cardinality(PositiveInputs(arg)) = 1) =>
        LET src == CHOOSE i \in PositiveInputs(arg) : TRUE IN
        \A o \in 1..Len(arg.vout) :
            arg.vout[o].value > 0 =>
                /\ Cardinality(EdgesTo(ret.projected, OutAddr(o))) = 1
                /\ \A e \in EdgesTo(ret.projected, OutAddr(o)) :
                      /\ ret.projected[e].from = InAddr(src)
                      /\ ret.projected[e].sats = arg.vout[o].value

\* The spec's case: one input of 100,000 and outputs of 60,000 and 40,000.
SplitSixtyForty ==
    /\ fn = "project"
    /\ arg = TxOfValues(<<100000>>, <<60000, 40000>>)
    /\ Len(ret.projected) = 2
    /\ ret.projected[1].sats = 60000 /\ ret.projected[2].sats = 40000

(***************************************************************************)
(* detect_coinjoin on one transaction (src/app.py 76-86).                  *)
(***************************************************************************)
MaxCjIns == 5
MaxCjOuts == 5

CoinjoinValues == {0, 19, 20, 21}

Replicate(n, x) == [i \in 1..n |-> x]

SeqsOfLen(S, lo, hi) == UNION {[1..n -> S] : n \in lo..hi}

TxOfOutputs(nin, outs) ==
    [txid |-> "T1",
     vin  |-> Replicate(nin, KnownIn("a1")),
     vout |-> [i \in 1..Len(outs) |-> [value |-> outs[i], scriptpubkey_address |-> OutAddr(i)]]]

CoinjoinTxs ==
    {TxOfOutputs(nin, outs) : nin \in 4..MaxCjIns, outs \in SeqsOfLen(CoinjoinValues, 4, MaxCjOuts)}
    \cup {TxOfOutputs(5, Replicate(5, 1000000)),
          TxOfOutputs(5, <<100, 200, 400, 800, 1600>>)}

DetectCoinjoin(tx) ==
    /\ fn = "none"
    /\ fn' = "detect_coinjoin"
    /\ arg' = tx
    /\ ret' = detect_coinjoin(tx)
    /\ UNCHANGED <<ufVars, peelVars, batchVars, clusVars, cacheVars, procVars>>

NextCoinjoin == fn = "none" /\ \E tx \in CoinjoinTxs : DetectCoinjoin(tx)

SpecCoinjoin == InitIdle /\ [][NextCoinjoin]_vars

\* the strictly positive output values of the argument, as a set of indices
PositiveOuts(tx) == {i \in 1..Len(tx.vout) : tx.vout[i].value > 0}

\* stddev/mean >= 1/20 for the positive output values of tx:
\* n * sum (n*x - S)^2 >= n^2 * S^2 / 400, i.e. 400 * (n*Q - S^2) >= S^2
DispersionAtLeastFivePercent(tx) ==
    LET v == Reduced(PositiveValues(tx.vout))
        n == Len(v)
        S == SumSeq(v)
        Q == SumSeq([i \in 1..n |-> v[i] * v[i]])
    IN  400 * (n * Q - S * S) >= S * S

\* C14: with >= 5 inputs and >= 5 outputs, equal positive output values give
\* score 1.0 and coinjoin-like; a coefficient of variation >= 0.05 gives
\* score 0 and not coinjoin-like; with fewer inputs or outputs, or no
\* positive value, the result is not-coinjoin with score 0.
CoinjoinScoreByDispersion ==
    fn = "detect_coinjoin" =>
        IF Len(arg.vin) >= 5 /\ Len(arg.vout) >= 5 /\ PositiveOuts(arg) # {}
        THEN /\ (\A i, j \in PositiveOuts(arg) : arg.vout[i].value = arg.vout[j].value)
                    => (ret.coinjoin /\ ret.score = 100 /\ ret.exact)
             /\ DispersionAtLeastFivePercent(arg)
                    => (~ret.coinjoin /\ ret.score = 0 /\ ret.exact)
        ELSE ~ret.coinjoin /\ ret.score = 0 /\ ret.exact

(***************************************************************************)
(* The two change scorers on one transaction: detect_change_candidates_    *)
(* for_tx (src/app.py 1199-1288), which process_txids and                  *)
(* cluster_from_address call, and change_candidate_scores (src/app.py      *)
(* 88-107).                                                                *)
(***************************************************************************)
MaxScIns == 2
MaxScOuts == 2

ScriptTypes == {"p2wpkh", "p2sh"}

OneBtc == 100000000

\* 0, an amount with eight decimals, a round 1.0 BTC, and a round amount
\* that is 95% of the larger input value
ScorerOutValues == {0, 1234567, 100000000, 190000000}

ScorerInValues == {100000000, 200000000}

\* the first input is worth 1.0 or 2.0 BTC, every further one 1.0 BTC
ScorerVins ==
    UNION {{[i \in 1..n |-> [prevout |-> [value |-> IF i = 1 THEN v ELSE OneBtc,
                                          scriptpubkey_type |-> f[i],
                                          scriptpubkey_address |-> InAddr(i)]]] :
                f \in [1..n -> ScriptTypes], v \in ScorerInValues} : n \in 1..MaxScIns}

\* an output pays to an address of its own; the first one may pay back to
\* the first input's address
ScorerVouts ==
    UNION {{[i \in 1..n |-> [value |-> f[i][1], scriptpubkey_type |-> f[i][2],
                             scriptpubkey_address |-> IF reuse /\ i = 1 THEN InAddr(1)
                                                     ELSE OutAddr(i)]] :
                f \in [1..n -> ScorerOutValues \X ScriptTypes], reuse \in BOOLEAN} :
           n \in 1..MaxScOuts}

ScorerTxs == {[txid |-> "T1", vin |-> i, vout |-> o] : i \in ScorerVins, o \in ScorerVouts}

ChangeScores(tx) ==
    /\ fn = "none"
    /\ fn' = "change_scores"
    /\ arg' = tx
    /\ ret' = [detailed |-> detect_change_candidates_for_tx(tx),
               simple |-> change_candidate_scores(tx)]
    /\ UNCHANGED <<ufVars, peelVars, batchVars, clusVars, cacheVars, procVars>>

\* the orders in which a process may iterate a set of the script types
SetOrders == {<<"p2sh", "p2wpkh">>, <<"p2wpkh", "p2sh">>}

\* the server process is started anew: the string hashes get a new salt
Restart(order) ==
    /\ set_order' = order
    /\ UNCHANGED <<ufVars, peelVars, batchVars, clusVars, cacheVars, fnVars>>

\* the transaction scored last is scored once more
ScoreAgain ==
    /\ fn = "change_scores"
    /\ ret' = [detailed |-> detect_change_candidates_for_tx(arg),
               simple |-> change_candidate_scores(arg)]
    /\ UNCHANGED <<fn, arg, ufVars, peelVars, batchVars, clusVars, cacheVars, procVars>>

\* one transaction scored by a process, whatever its hash salt
NextScorer ==
    /\ fn = "none"
    /\ \/ \E tx \in ScorerTxs : ChangeScores(tx)
       \/ \E order \in SetOrders : Restart(order)

SpecScorer == InitIdle /\ [][NextScorer]_vars

\* the same, the transaction then scored again, by the same process or after a restart
NextRescore ==
    \/ NextScorer
    \/ /\ fn = "change_scores"
       /\ \/ \E order \in SetOrders : Restart(order)
          \/ ScoreAgain

SpecRescore == InitIdle /\ [][NextRescore]_vars

\* C29: change scoring is a function of the transaction alone: scoring the
\* same transaction again gives the same score and flags for every output,
\* also when two input script types tie for most frequent.
ScoringDeterministic ==
    [][(fn = "change_scores" /\ fn' = "change_scores" /\ arg' = arg) => ret' = ret]_vars

AllInputsOfType(tx, t) == \A i \in 1..Len(tx.vin) : tx.vin[i].prevout.scriptpubkey_type = t

LargestInput(tx) == MaxOf([i \in 1..Len(tx.vin) |-> tx.vin[i].prevout.value])

\* v <= 0.95 * m
AtMost95(v, m) == Below95(v, m) \/ (m % 20 = 0 /\ v = 19 * (m \div 20))

\* output f matches the inputs' script type and is worth at most 95% of the
\* largest input; the other output, o, is a round 1.0 BTC
ChangeAndPayment(tx, f, o) ==
    /\ AllInputsOfType(tx, "p2wpkh")
    /\ Len(tx.vout) = 2 /\ f \in 1..2 /\ o \in 1..2 /\ f # o
    /\ tx.vout[f].scriptpubkey_type = "p2wpkh"
    /\ AtMost95(tx.vout[f].value, LargestInput(tx))
    /\ tx.vout[f].value # OneBtc
    /\ tx.vout[o].value = OneBtc

ChangeOutscores(scores, f, o) ==
    /\ scores[f].score > scores[o].score
    /\ (scores[f].score > 0 /\ scores[o].score <= 0)
            => "sole_positive_boost" \in Range(scores[f].flags)

StrictlyPositive(scores) == {i \in 1..Len(scores) : scores[i].score > 0}

Tagged(scores) ==
    {i \in 1..Len(scores) : "sole_positive_boost" \in Range(Get(scores[i], "flags", << >>))}

\* after is before with the sole-positive boost of the given weight: a sole
\* strictly positive output is raised by it, capped at 1.0, and tagged;
\* otherwise nothing is changed and nothing is tagged
BoostApplied(before, after, weight) ==
    /\ Len(after) = Len(before)
    /\ IF Cardinality(StrictlyPositive(before)) = 1
       THEN /\ Tagged(after) = StrictlyPositive(before)
            /\ \A i \in 1..Len(before) :
                  after[i].score = IF i \in StrictlyPositive(before)
                                   THEN (IF before[i].score + weight > 1000 THEN 1000
                                         ELSE before[i].score + weight)
                                   ELSE before[i].score
       ELSE /\ Tagged(after) = {}
            /\ \A i \in 1..Len(before) : after[i].score = before[i].score

\* C16: both scorers finish with the sole-positive boost: +0.15 (simple) or
\* +0.12 (detailed), capped at 1.0, with the tag sole_positive_boost, for a
\* sole strictly positive output, and no change and no tag otherwise.
BothScorersBoostAndTag ==
    fn = "change_scores" =>
        /\ BoostApplied(ResultsBeforeBoost(arg), ret.detailed, 120)
        /\ BoostApplied(OutScoresBeforeBoost(arg), ret.simple, 150)

\* output i is worth more than 0 and less than 95% of the largest input
RemainderSized(tx, i) ==
    tx.vout[i].value > 0 /\ Below95(tx.vout[i].value, LargestInput(tx))

\* the weight, in thousandths, of a signal of the detailed scorer, the
\* remainder-size signal weighing w
FlagWeight(flag, w) ==
    IF flag = "high_decimal" THEN 200
    ELSE IF flag = "round_amount" THEN 0 - 150
    ELSE IF flag = "script_match" THEN 150
    ELSE IF flag = "smaller_than_inputs" THEN w
    ELSE IF flag = "coinjoin_like" THEN 0 - 200
    ELSE 0

\* C26: in both change scorers the remainder-size signal goes to an output
\* exactly when its value is strictly greater than 0 and strictly less than
\* 95% of the largest single input value, and adds 0.2 to its score.
RemainderSignalByLargestInput ==
    fn = "change_scores" =>
        \A i \in 1..Len(arg.vout) :
            /\ ("smaller_than_inputs" \in Range(ret.detailed[i].flags)) <=> RemainderSized(arg, i)
            /\ LET before == ResultsBeforeBoost(arg)[i]
               IN  before.score =
                       SumSeq([k \in 1..Len(before.flags) |-> FlagWeight(before.flags[k], 200)])
            /\ LET reused == arg.vout[i].scriptpubkey_address \in
                                 {arg.vin[k].prevout.scriptpubkey_address : k \in 1..Len(arg.vin)}
                   matched == arg.vout[i].scriptpubkey_type =
                                 MajorScript(PrevoutsWith(arg.vin, "scriptpubkey_type"))
               IN  OutScoresBeforeBoost(arg)[i].score =
                       (IF reused THEN 400 ELSE 0) + (IF matched THEN 200 ELSE 0)
                       + (IF RemainderSized(arg, i) THEN 200 ELSE 0)

\* C17: the batch scan scores change outputs with the simple scorer, whose
\* signals only add, so every change score reported for a scanned
\* transaction lies in [0, 1].
BatchScoresNeverNegative ==
    \A j \in 1..Len(tx_flags) :
        /\ \A i \in 1..Len(tx_flags[j].change_scores) :
              /\ tx_flags[j].change_scores[i].score >= 0
              /\ tx_flags[j].change_scores[i].score <= 1000
        /\ \E k \in 1..Len(lookups) :
              /\ lookups[k].ok /\ lookups[k].txid = tx_flags[j].txid
              /\ tx_flags[j].change_scores = change_candidate_scores(lookups[k].json)

(***************************************************************************)
(* compute_peel_score (src/app.py 559-659).  The components are in         *)
(* thousandths and the score in millionths; a quotient or a square root    *)
(* that is not a whole number of thousandths is rounded down, so the       *)
(* figures are exact wherever the code's are whole thousandths (in         *)
(* particular when all the ratios are equal).                              *)
(***************************************************************************)
\* value_sats as compute_peel_score reads it: the tracer stores None in the
\* hops that carry an error tag and an int in every other hop
NumericValue(h) ==
    IF "error" \in DOMAIN h THEN [isNone |-> TRUE, v |-> 0]
    ELSE [isNone |-> FALSE, v |-> h.value_sats]

\* vals: the numeric, strictly positive values in hop order
RECURSIVE PositiveVals(_)
PositiveVals(peel_chain) ==
    IF peel_chain = << >> THEN << >>
    ELSE LET nv == NumericValue(Head(peel_chain))
         IN  (IF ~nv.isNone /\ nv.v > 0 THEN <<nv.v>> ELSE << >>)
             \o PositiveVals(Tail(peel_chain))

RECURSIVE PositiveSources(_)
PositiveSources(peel_chain) ==
    IF peel_chain = << >> THEN << >>
    ELSE LET nv == NumericValue(Head(peel_chain))
         IN  (IF ~nv.isNone /\ nv.v > 0
              THEN <<Get(Head(peel_chain), "value_source", "unknown")>> ELSE << >>)
             \o PositiveSources(Tail(peel_chain))

\* 1) monotonic_count / (len(vals) - 1)
Monotonicity(vals) ==
    (Cardinality({i \in 1..(Len(vals) - 1) : vals[i + 1] <= vals[i]}) * 1000)
        \div (Len(vals) - 1)

\* the largest s with s * s <= n, for n < 2^24
RECURSIVE IsqrtIn(_, _, _)
IsqrtIn(n, lo, hi) ==
    IF hi - lo <= 1 THEN lo
    ELSE LET mid == (lo + hi) \div 2
         IN  IF mid * mid <= n THEN IsqrtIn(n, mid, hi) ELSE IsqrtIn(n, lo, mid)

Isqrt(n) == IsqrtIn(n, 0, 4096)

Abs(x) == IF x < 0 THEN 0 - x ELSE x

Min(a, b) == IF a < b THEN a ELSE b

Max(a, b) == IF a > b THEN a ELSE b

\* 2) ratio stability
RatioStability(vals) ==
    LET ratios == [i \in 1..(Len(vals) - 1) |-> (vals[i + 1] * 1000) \div vals[i]]
        k == Len(ratios)
        mean_ratio == SumSeq(ratios) \div k
        var == SumSeq([i \in 1..k |-> (ratios[i] - mean_ratio) * (ratios[i] - mean_ratio)]) \div k
        sd == Isqrt(var)
        mean_score == 1000 - Min(1000, (Abs(mean_ratio - 800) * 1000) \div 800)
        sd_score == 1000000 \div (1000 + sd * 8)
    IN  Max(0, Min(1000, (mean_score * 700 + sd_score * 300) \div 1000))

\* found_small for the spending transaction stx of a hop worth cont_val:
\* some output other than the largest is <= max(1, cont_val * 0.05)
FoundSmall(stx, cont_val) ==
    LET outs == ValuesOf(Get(stx, "vout", << >>))
        largest == MaxOf(outs)
    IN  \E i \in 1..Len(outs) : outs[i] # largest /\ 20 * outs[i] <= Max(20, cont_val)

\* 3) the loop of the small-peel signal: checks is raised before the fetch,
\* small_peel_hits after a fetch that shows a small output; answers[i] is
\* the provider's answer to get_tx_json(spent_txid) for hop i
SmallPeelTally(peel_chain, answers) ==
    LET checked == {i \in 1..Len(peel_chain) :
                        /\ Truthy(Get(peel_chain[i], "spent_in_tx", None))
                        /\ NumericValue(peel_chain[i]).v > 0}
        hit == {i \in checked :
                    /\ answers[i].ok
                    /\ ValuesOf(Get(answers[i].json, "vout", << >>)) # << >>
                    /\ FoundSmall(answers[i].json, NumericValue(peel_chain[i]).v)}
    IN  [checks |-> Cardinality(checked), small_peel_hits |-> Cardinality(hit)]

\* A wrong hop factor: saturating at ten hops.
HopFactor_saturatesAtTen(hop_count) == Min(1000, (hop_count * 1000) \div 10)

\* 4) min(1.0, hop_count / 6.0)
HopFactor(hop_count) == Min(1000, (hop_count * 1000) \div 6)

compute_peel_score(peel_chain, answers) ==
    LET vals == PositiveVals(peel_chain)
        details == [n_hops_total |-> Len(peel_chain), n_numeric_hops |-> Len(vals),
                    value_sources |-> PositiveSources(peel_chain)]
    IN  IF Len(vals) < 2
        THEN [score |-> 0, details |-> details @@ [reason |-> "not_enough_numeric_hops"]]
        ELSE LET monotonicity == Monotonicity(vals)
                 ratio_stability == RatioStability(vals)
                 t == SmallPeelTally(peel_chain, answers)
                 small_peel_presence ==
                     IF t.checks > 0 THEN (t.small_peel_hits * 1000) \div t.checks ELSE 0
                 hop_factor == HopFactor(Len(vals))
                 score == 400 * monotonicity + 300 * ratio_stability
                          + 200 * small_peel_presence + 100 * hop_factor
             IN  [score |-> Max(0, Min(1000000, score)),
                  details |-> details @@
                      [monotonicity |-> monotonicity, ratio_stability |-> ratio_stability,
                       small_peel_presence |-> small_peel_presence, hop_factor |-> hop_factor]]

\* ---- the chains scored
MaxPeelHops == 4

RECURSIVE Pow(_, _)
Pow(b, e) == IF e = 0 THEN 1 ELSE b * Pow(b, e - 1)

\* 100000, 80000, 64000, 51200, ...: each 0.8 times the one before
GeoValue(i) == (100000 * Pow(4, i - 1)) \div Pow(5, i - 1)

\* what a hop is worth: the i-th value of the 0.8 series, 100000 whatever
\* the position, 0, or nothing (a hop with an error tag); and what becomes
\* of it: unspent, or spent in a transaction that cannot be fetched, that
\* shows a small output, or that shows none
HopShapes ==
    ({"geo"} \X {"unspent", "failed", "small", "nosmall"})
    \cup ({"flat"} \X {"unspent", "small"})
    \cup ({"zero", "error"} \X {"unspent"})

ShapedHop(shape, i) ==
    IF shape[1] = "error" THEN OutspendsErrorHop(TxName(i), 0)
    ELSE HopRecord(TxName(i), 0,
                   IF shape[2] = "unspent" THEN [spent |-> FALSE]
                   ELSE [spent |-> TRUE, txid |-> TxName(i + 1), vin |-> 0],
                   [v |-> IF shape[1] = "geo" THEN GeoValue(i)
                          ELSE IF shape[1] = "flat" THEN 100000 ELSE 0,
                    source |-> "tx_vout"],
                   [addr |-> None])

\* the provider's answer to get_tx_json for the transaction that spends hop i
ShapedAnswer(shape) ==
    IF shape[2] = "small"
    THEN [ok |-> TRUE, json |-> [vout |-> <<[value |-> 30000], [value |-> 1000]>>]]
    ELSE IF shape[2] = "nosmall"
    THEN [ok |-> TRUE, json |-> [vout |-> <<[value |-> 30000], [value |-> 20000]>>]]
    ELSE Failure

ComputePeelScore(shapes) ==
    /\ fn = "none"
    /\ fn' = "compute_peel_score"
    /\ LET peel_chain == [i \in 1..Len(shapes) |-> ShapedHop(shapes[i], i)]
           answers == [i \in 1..Len(shapes) |-> ShapedAnswer(shapes[i])]
       IN  /\ arg' = [peel_chain |-> peel_chain, answers |-> answers, shapes |-> shapes]
           /\ ret' = compute_peel_score(peel_chain, answers)
    /\ UNCHANGED <<ufVars, peelVars, batchVars, clusVars, cacheVars, procVars>>

NextPeelScore == fn = "none" /\ \E shapes \in SeqsUpTo(HopShapes, MaxPeelHops) : ComputePeelScore(shapes)

SpecPeelScore == InitIdle /\ [][NextPeelScore]_vars

Components == {"monotonicity", "ratio_stability", "small_peel_presence", "hop_factor"}

\* C18: with fewer than 2 numeric strictly positive values the score is 0,
\* the reason is "insufficient data" and no component is computed.
TooFewValuesInsufficientData ==
    (fn = "compute_peel_score" /\ Len(PositiveVals(arg.peel_chain)) < 2) =>
        /\ ret.score = 0
        /\ Get(ret.details, "reason", None) = "insufficient data"
        /\ DOMAIN ret.details \cap Components = {}

\* every hop carries a positive value, each exactly 0.8 times the one before
GeometricChain(peel_chain) ==
    /\ \A i \in 1..Len(peel_chain) : NumericValue(peel_chain[i]).v > 0
    /\ \A i \in 1..(Len(peel_chain) - 1) :
          5 * peel_chain[i + 1].value_sats = 4 * peel_chain[i].value_sats

\* C19: a chain of at least 4 hops with positive values, each exactly 0.8
\* times the previous, has monotonicity 1.0, ratio_stability 1.0 and a
\* score >= 0.75, whatever the provider answers for the spending
\* transactions.
GeometricChainLikelyPeel ==
    (fn = "compute_peel_score" /\ Len(arg.peel_chain) >= 4 /\ GeometricChain(arg.peel_chain)) =>
        /\ ret.details.monotonicity = 1000
        /\ ret.details.ratio_stability = 1000
        /\ ret.score >= 750000

\* The spec's chain, 100000, 80000, 64000, 51200, every hop spent in a
\* transaction that cannot be fetched.
SpecChainAllFetchesFail ==
    /\ fn = "compute_peel_score"
    /\ Len(arg.peel_chain) = 4
    /\ \A i \in 1..4 : arg.shapes[i] = <<"geo", "failed">>
    /\ arg.peel_chain[1].value_sats = 100000 /\ arg.peel_chain[4].value_sats = 51200
    /\ ret.details.small_peel_presence = 0
    /\ ret.score >= 750000

\* the hops whose spending transaction was asked for and could be fetched
FetchedHops(a) ==
    {i \in 1..Len(a.peel_chain) :
        /\ Truthy(Get(a.peel_chain[i], "spent_in_tx", None))
        /\ NumericValue(a.peel_chain[i]).v > 0
        /\ a.answers[i].ok}

\* C20: small_peel_presence is the fraction of hits among the hops whose
\* spending transaction could be fetched; a failed fetch counts neither as a
\* hit nor as a check.
FetchFailuresNotCounted ==
    (fn = "compute_peel_score" /\ "small_peel_presence" \in DOMAIN ret.details) =>
        LET fetched == FetchedHops(arg)
            hits == {i \in fetched :
                        FoundSmall(arg.answers[i].json, arg.peel_chain[i].value_sats)}
        IN  ret.details.small_peel_presence =
                IF fetched = {} THEN 0
                ELSE (Cardinality(hits) * 1000) \div Cardinality(fetched)

(***************************************************************************)
(* One iteration of trace_peel_chain's loop (src/app.py 686-754) applied   *)
(* to one outspend entry and the answers of the transaction lookups it     *)
(* may make: the source transaction, the spending transaction for the      *)
(* proxy value, the spending transaction for the display address.          *)
(***************************************************************************)
MaxResolveVout == 1

\* an outspend entry with or without a "value" (0 or positive), unspent,
\* spent without a txid, or spent in T2
ResolveOutspends ==
    LET spends == {Unspent, [spent |-> TRUE], [spent |-> TRUE, txid |-> "T2", vin |-> 0]}
        WithValue(e, v) == [k \in DOMAIN e \cup {"value"} |-> IF k = "value" THEN v ELSE e[k]]
    IN  spends \cup {WithValue(e, v) : e \in spends, v \in {0} \cup OsValues}

\* vout lists: the tracer's, an empty one, one declaring 0, one declaring nothing
ResolveVouts ==
    TxVouts \cup { << >>,
                   <<[value |-> 0, scriptpubkey_address |-> "a2"]>>,
                   <<[scriptpubkey_address |-> "a3"]>> }

ResolveTxResponses == {Failure} \cup {[ok |-> TRUE, json |-> [vout |-> l]] : l \in ResolveVouts}

ResolveHop(out, cv, force, src, sp, sp2) ==
    /\ fn = "none"
    /\ fn' = "resolve_hop"
    /\ arg' = [out |-> out, cv |-> cv, force |-> force, src |-> src, sp |-> sp, sp2 |-> sp2]
    /\ ret' = HopRecord("T1", cv, out, ResolveValue(out, cv, force, src, sp), SpentAddr(out, sp2))
    /\ UNCHANGED <<ufVars, peelVars, batchVars, clusVars, cacheVars, procVars>>

NextResolve ==
    /\ fn = "none"
    /\ \E out \in ResolveOutspends, cv \in 0..MaxResolveVout, force \in BOOLEAN,
          src \in ResolveTxResponses, sp \in ResolveTxResponses, sp2 \in ResolveTxResponses :
           ResolveHop(out, cv, force, src, sp, sp2)

SpecResolve == InitIdle /\ [][NextResolve]_vars

\* the spend-status entry carries a positive numeric value
OsPositive(out) == "value" \in DOMAIN out /\ out.value > 0

\* the source transaction is looked up
SourceAsked(a) == a.force \/ ~OsPositive(a.out)

\* the source transaction was fetched and has the output index
SourceHasIndex(a) ==
    SourceAsked(a) /\ a.src.ok /\ a.cv < Len(a.src.json.vout)

\* the value the output declares in the source transaction (0 when it declares none)
Declared(a) == Get(a.src.json.vout[a.cv + 1], "value", 0)

\* C23: in forced-lookup mode, or when the spend-status entry has no positive
\* numeric value, a source transaction that is fetched and has the output
\* index with a positive declared value gives the hop that declared value
\* (not the spend-status value) and the provenance tx_vout.
SourceValueWins ==
    (fn = "resolve_hop" /\ SourceHasIndex(arg) /\ Declared(arg) > 0) =>
        /\ ret.value_sats = Declared(arg)
        /\ ret.value_source = "tx_vout"

\* Forced lookup: the spend-status entry says 500, the source transaction 300.
ForcedLookupOverrides ==
    /\ fn = "resolve_hop" /\ arg.force /\ arg.cv = 0
    /\ OsPositive(arg.out) /\ arg.out.value = 500
    /\ SourceHasIndex(arg) /\ Declared(arg) = 300
    /\ ret.value_sats = 300 /\ ret.value_source = "tx_vout"

\* the value in hand after the spend-status entry and the source transaction:
\* the declared value where the source transaction was read, else the entry's
ValueInHand(a) ==
    IF SourceHasIndex(a) THEN Declared(a)
    ELSE IF "value" \in DOMAIN a.out THEN a.out.value ELSE 0

SpentWithTxid(out) == Get(out, "spent", FALSE) /\ Truthy(Get(out, "txid", None))

MaxUnionTxs == 2

\* input lists: one or two known addresses in every order, one list of
\* three, and known addresses beside an input of unknown address
UnionVinLists ==
    LET known == (SeqsUpTo(Addr, 2) \ {<< >>}) \cup {<<"a3", "a1", "a2">>}
    IN  {[i \in 1..Len(l) |-> KnownIn(l[i])] : l \in known}
        \cup {<<KnownIn(a), UnknownIn>> : a \in Addr}
        \cup {<<UnknownIn, KnownIn("a2")>>}

UnionTxLists ==
    {[i \in 1..Len(q) |-> [txid |-> TxName(i), vin |-> q[i]]] :
        q \in SeqsUpTo(UnionVinLists, MaxUnionTxs)}

UnionInputLists(txs) ==
    /\ fn = "none"
    /\ fn' = "union_txs"
    /\ arg' = [txs |-> txs]
    /\ ret' = UnionTxs(UnionFind, txs)
    /\ UNCHANGED <<ufVars, peelVars, batchVars, clusVars, cacheVars, procVars>>

NextUnions == fn = "none" /\ \E txs \in UnionTxLists : UnionInputLists(txs)

SpecUnions == InitIdle /\ [][NextUnions]_vars

\* a and b are in one class of the union-find u
SameClass(u, a, b) == find(u, a).ret = find(u, b).ret

\* u and v partition the addresses alike
SamePartition(u, v) == \A a, b \in Addr : SameClass(u, a, b) <=> SameClass(v, a, b)

Reordered(q, f) == [i \in 1..Len(q) |-> q[f[i]]]

\* every ordering of the transactions, each with every ordering of its inputs
Reorderings(txs) ==
    LET InputOrders(q) ==
            {h \in [1..Len(q) -> UNION {Permutations(1..n) : n \in 1..3}] :
                \A i \in 1..Len(q) : DOMAIN h[i] = 1..Len(q[i].vin)}
        Inside(q, h) ==
            [i \in 1..Len(q) |-> [txid |-> q[i].txid, vin |-> Reordered(q[i].vin, h[i])]]
    IN  UNION {{Inside(Reordered(txs, f), h) : h \in InputOrders(Reordered(txs, f))} :
                  f \in Permutations(1..Len(txs))}

\* C28: the partition the common-input unions build is the equivalence
\* closure of "both are known input addresses of one transaction": two
\* addresses share a class exactly when a chain of transactions links them
\* through known inputs spent together; and it is the same partition for
\* every order of the transactions and every order of the inputs inside a
\* transaction.
PartitionIsClosure ==
    fn = "union_txs" =>
        /\ \A a, b \in Addr : SameClass(ret, a, b) <=> b \in Linked({a}, Range(arg.txs))
        /\ \A r \in Reorderings(arg.txs) :
              \A u \in {UnionTxs(UnionFind, r)} : SamePartition(u, ret)

\* a1 and a2 are spent together, then a3 and a2: one class, whose
\* representative is a3 in this order and a1 in the other.
TransitiveClassOtherRepresentative ==
    /\ fn = "union_txs" /\ Len(arg.txs) = 2
    /\ ClusterInputs(arg.txs[1].vin) = <<"a1", "a2">>
    /\ ClusterInputs(arg.txs[2].vin) = <<"a3", "a2">>
    /\ \A a, b \in Addr : SameClass(ret, a, b)
    /\ find(ret, "a1").ret = "a3"
    /\ find(UnionTxs(UnionFind, <<arg.txs[2], arg.txs[1]>>), "a1").ret = "a1"

\* C30: the detailed change scorer does not depend on the order of the
\* outputs: with the outputs permuted, each output gets the same final score
\* and the same flags (sole_positive_boost among them), also when two outputs
\* have the same score after the main pass.
OutputOrderIrrelevant ==
    fn = "change_scores" =>
        \A f \in Permutations(1..Len(arg.vout)) :
            \A permuted \in {detect_change_candidates_for_tx(
                                  [arg EXCEPT !.vout = Reordered(arg.vout, f)])} :
                \A i \in 1..Len(arg.vout) :
                    /\ permuted[i].score = ret.detailed[f[i]].score
                    /\ permuted[i].flags = ret.detailed[f[i]].flags
                    /\ permuted[i].value_sats = arg.vout[f[i]].value

\* Two different outputs with the same positive score after the main pass:
\* neither is boosted, in either order.
TiedOutputsUnboosted ==
    /\ fn = "change_scores" /\ Len(arg.vout) = 2
    /\ arg.vout[1] # arg.vout[2]
    /\ arg.vout[1].value # arg.vout[2].value
    /\ ResultsBeforeBoost(arg)[1].score = ResultsBeforeBoost(arg)[2].score
    /\ ResultsBeforeBoost(arg)[1].score > 0
    /\ ret.detailed[1].score = ret.detailed[2].score
    /\ Tagged(ret.detailed) = {}
    /\ Tagged(detect_change_candidates_for_tx(
                  [arg EXCEPT !.vout = <<arg.vout[2], arg.vout[1]>>])) = {}

====
